---- MODULE Spec2Model ----
(***************************************************************************)
(* Model of the shared-redis cache facade (src/src/cache.rs) over a        *)
(* key-value store with expiry.  Strings are sequences of one-character    *)
(* strings; the store is the Redis server the facade's commands reach.     *)
(*                                                                         *)
(* A store command either is applied and answered, or fails without being  *)
(* applied (the facade sees Err): that is the failure every action draws   *)
(* with its `ok` input.                                                    *)
(***************************************************************************)
EXTENDS Integers, Sequences, FiniteSets, TLC

\* ------------------------------------------------------------------ bounds
\* Calls started (by the managers and by the other client of the store) plus
\* seconds elapsed in one behaviour.
MaxSteps == 2
\* Length of the hex digest the model's hash produces (64 for SHA-256).
DigestLen == 2

\* ------------------------------------------------------------- input sets
Managers == {"m1", "m2"}

\* Keys the callers pass to set / get / delete directly.
KeyB0 == <<"b", "0">>
KeyC0 == <<"c", "0">>
DirectKeys == {KeyB0, KeyC0}

\* Globs passed to clear_pattern.
Patterns == {<<"b", "*">>, <<"?", "0">>}

\* Cache prefixes and request objects passed to cache_response.  A request
\* is the sequence of its <<field, value>> pairs in serialization order; the
\* value "unser" is one serde cannot serialize.
Prefixes == {<<"b">>, <<"c">>}
ReqA == << <<"i", "1">>, <<"p", "0">> >>
ReqC == << <<"i", "0">>, <<"p", "0">> >>
ReqBad == << <<"i", "unser">> >>
Requests == {ReqA, ReqC, ReqBad}

\* Prefixes and requests passed to generate_cache_key alone: requests of one
\* or two fields, the same fields in either order among them; the prefix "b:4"
\* ends like the start of a digest.
KeyPrefixes == {<<"b">>, <<"c">>, <<"b", ":", "4">>}
KeyFields == {<<n, v>> : n \in {"i", "p"}, v \in {"0", "1", "unser"}}
KeyRequests ==
    {<<f>> : f \in KeyFields}
    \cup {r \in {<<f, g>> : f \in KeyFields, g \in KeyFields} : r[1][1] # r[2][1]}

\* Payloads; "unser" is a payload whose Serialize impl fails.
DataValues == {"d1", "d2", "unser"}
\* Payloads passed to cache_response.
ResponseValues == {"d1", "unser"}

\* What another client of the store writes: text that is not JSON, and bytes
\* that are not UTF-8 ("xFF" stands for such a byte).
Garbage == << <<"g", "a", "r", "b">> >>
NotUtf8 == << <<"xFF", "g">> >>
RawValues == {Garbage, NotUtf8}

\* Values of the CACHE_TTL_SECONDS environment variable.
EnvUnset == [set |-> FALSE, val |-> <<>>]
EnvSet(s) == [set |-> TRUE, val |-> s]
TtlEnvValues == {EnvUnset, EnvSet(<<"1">>)}
\* Values of CACHE_ENABLED and of CACHE_TTL_SECONDS that the configuration
\* functions are tried on; "xFF" stands for a byte that is not Unicode, and
\* TooBig is 1 followed by twenty-one zeros.
EnabledEnvValues ==
    {EnvUnset, EnvSet(<<"t", "r", "u", "e">>), EnvSet(<<"T", "R", "U", "E">>),
     EnvSet(<<"t", "R", "u", "E">>), EnvSet(<<"f", "a", "l", "s", "e">>), EnvSet(<<"1">>),
     EnvSet(<<>>), EnvSet(<<"t", "r", "u", "e", " ">>), EnvSet(<<"T", "R", "U">>),
     EnvSet(<<"xFF">>)}
TooBig == [i \in 1..22 |-> IF i = 1 THEN "1" ELSE "0"]
WideTtlEnvValues ==
    {EnvUnset, EnvSet(<<"1">>), EnvSet(<<"0">>), EnvSet(<<"+", "2">>), EnvSet(<<"0", "0", "7">>),
     EnvSet(<<"1", "2", "0">>), EnvSet(<<"-", "1">>), EnvSet(<<"x">>), EnvSet(<<>>),
     EnvSet(<<"1", "x">>), EnvSet(<<" ", "5">>), EnvSet(<<"+">>), EnvSet(TooBig),
     EnvSet(<<"xFF">>)}

\* Values the application gives CACHE_TTL_SECONDS while the managers run.
TtlChoices == {EnvSet(<<"2">>), EnvSet(<<"0">>)}

\* Values of REDIS_URL: a URL that Client::open accepts (scheme, then host)
\* and a text that is no Redis URL.
RedisUrl == <<"redis://", "h">>
BadUrl == <<"h">>
UrlEnvValues == {EnvUnset, EnvSet(RedisUrl), EnvSet(BadUrl)}
\* Values of REDIS_HOST, REDIS_PORT, REDIS_USERNAME, REDIS_PASSWORD and
\* REDIS_AUTH_PASSWORD; the port "x" is no number.
RedisEnvValues ==
    [host : {EnvUnset, EnvSet(<<"h", "2">>)},
     port : {EnvUnset, EnvSet(<<"7">>), EnvSet(<<"x">>)},
     username : {EnvUnset, EnvSet(<<"u">>)},
     password : {EnvUnset, EnvSet(<<>>), EnvSet(<<"p">>)},
     auth_password : {EnvUnset, EnvSet(<<"a">>)}]
\* Values of CACHE_ENABLED the managers are constructed under.
CtorEnabledEnvValues == {EnvUnset, EnvSet(<<"f", "a", "l", "s", "e">>), EnvSet(<<"T", "R", "U", "E">>)}

\* Tasks that call the helpers of operations.rs, each with a connection of
\* its own, and the value each passes to the set-if-absent helpers.
Tasks == {"t1", "t2"}
TokenOf == [c \in Tasks |-> << <<"t", IF c = "t1" THEN "1" ELSE "2">> >>]
\* Values of IDEMPOTENT_EXPIRY_IN_SEC.
ExpiryEnvValues == {EnvUnset, EnvSet(<<"1">>), EnvSet(<<"0">>), EnvSet(<<"x">>)}

\* Channels and messages passed to the publish/subscribe helpers.
Channels == {<<"user_events">>, <<"notifications">>}
Messages == {<<"e", "1">>, <<"e", "2">>}

Ok(x) == [tag |-> "Ok", val |-> x]
Err(x) == [tag |-> "Err", val |-> x]
Pending == [tag |-> "Pending", val |-> "none"]
\* Result::unwrap on an Err: the calling task panics and returns nothing.
Panicked == [tag |-> "Panic", val |-> "unwrap"]

Range(s) == {s[i] : i \in 1..Len(s)}

\* --------------------------------------------------------- pure functions

\* str::parse::<u64>: an optional "+", then one or more decimal digits.
Digits == <<"0", "1", "2", "3", "4", "5", "6", "7", "8", "9">>
DigitVal(c) == (CHOOSE i \in 1..10 : Digits[i] = c) - 1
RECURSIVE DecVal(_)
DecVal(s) == IF s = <<>> THEN 0 ELSE 10 * DecVal(SubSeq(s, 1, Len(s) - 1)) + DigitVal(s[Len(s)])
\* The digits after the leading zeros; a u64 has at most U64Digits of them
\* (the inputs of the model have fewer, or more: none has as many).
RECURSIVE Significant(_)
Significant(s) == IF s # <<>> /\ s[1] = "0" THEN Significant(Tail(s)) ELSE s
U64Digits == 20
ParseU64(s) ==
    LET body == IF s # <<>> /\ s[1] = "+" THEN Tail(s) ELSE s
    IN  IF body # <<>> /\ \A i \in 1..Len(body) : body[i] \in Range(Digits)
        THEN IF Len(Significant(body)) > U64Digits THEN Err("overflow") ELSE Ok(DecVal(body))
        ELSE Err("parse")

\* The decimal text of a number (Display for integers and timestamps).
RECURSIVE DecStr(_)
DecStr(n) == IF n < 10 THEN <<Digits[n + 1]>> ELSE DecStr(n \div 10) \o <<Digits[(n % 10) + 1]>>

\* serde_json::to_string of a request object: its fields in declaration order.
RECURSIVE JsonFields(_, _)
JsonFields(req, i) ==
    IF i > Len(req) THEN <<>>
    ELSE <<req[i][1], ":", req[i][2]>> \o (IF i < Len(req) THEN <<",">> ELSE <<>>)
         \o JsonFields(req, i + 1)
ToJson(req) ==
    IF \E i \in 1..Len(req) : req[i][2] = "unser"
    THEN Err("serialization")
    ELSE Ok(<<"{">> \o JsonFields(req, 1) \o <<"}">>)

\* hex::encode(Sha256::digest(bytes)): a fixed-length hex string that is a
\* function of the bytes alone.  The model's digest is a positional hash of
\* the characters, written in DigestLen hex digits.
HexDigits == <<"0", "1", "2", "3", "4", "5", "6", "7", "8", "9", "a", "b", "c", "d", "e", "f">>
CharCodes == <<"{", "}", ":", ",", "i", "p", "0", "1">>
CharCode(c) == CHOOSE i \in 1..Len(CharCodes) : CharCodes[i] = c
RECURSIVE Pow16(_)
Pow16(n) == IF n = 0 THEN 1 ELSE 16 * Pow16(n - 1)
RECURSIVE HashNum(_)
HashNum(s) == IF s = <<>> THEN 7
              ELSE (31 * HashNum(SubSeq(s, 1, Len(s) - 1)) + CharCode(s[Len(s)])) % Pow16(DigestLen)
RECURSIVE HexOf(_, _)
HexOf(n, len) == IF len = 0 THEN <<>> ELSE HexOf(n \div 16, len - 1) \o <<HexDigits[(n % 16) + 1]>>
Sha256Hex(bytes) == HexOf(HashNum(bytes), DigestLen)

\* A key whose digest is not separated from the prefix (format!("{}{}", ..)).
GenerateCacheKeyNoColon(prefix, request_data) ==
    LET serialized == ToJson(request_data)
    IN  IF serialized.tag = "Err" THEN serialized
        ELSE Ok(prefix \o Sha256Hex(serialized.val))

\* CacheManager::generate_cache_key
generate_cache_key(prefix, request_data) ==
    LET serialized == ToJson(request_data)
    IN  IF serialized.tag = "Err" THEN serialized
        ELSE Ok(prefix \o <<":">> \o Sha256Hex(serialized.val))

\* The keys of the model's prefixes and requests, computed once.
CacheKeyOf == [p \in Prefixes, r \in Requests |-> generate_cache_key(p, r)]
DerivedKeys == {CacheKeyOf[p, r].val : p \in Prefixes, r \in Requests \ {ReqBad}}
StoreKeys == DirectKeys \cup DerivedKeys

\* CachedResponse<T>
CachedResponse(data, cached_at, cache_key) ==
    [data |-> data, cached_at |-> cached_at, cache_key |-> cache_key]
NoEnvelope == CachedResponse("", 0, <<>>)
None == [some |-> FALSE, v |-> NoEnvelope]
Some(x) == [some |-> TRUE, v |-> x]

\* serde_json::to_string of an envelope: the text of the JSON object, a
\* sequence of fields, each a sequence of characters.
Serialize(e) ==
    IF e.data = "unser" THEN Err("serialization")
    ELSE Ok(<< <<"{">>, <<"data">>, <<e.data>>, <<"cached_at">>, DecStr(e.cached_at),
               <<"cache_key">>, e.cache_key, <<"}">> >>)

\* A deserializer that skips the cache_key field.
DeserializeSkipKey(text) ==
    IF Len(text) = 8 /\ Len(text[3]) = 1 /\ ParseU64(text[5]).tag = "Ok"
    THEN Ok(CachedResponse(text[3][1], ParseU64(text[5]).val, <<>>))
    ELSE Err("deserialization")

\* serde_json::from_str::<CachedResponse<T>> of a stored text.
Deserialize(text) ==
    IF /\ Len(text) = 8
       /\ text[1] = <<"{">> /\ text[8] = <<"}">>
       /\ text[2] = <<"data">> /\ text[4] = <<"cached_at">> /\ text[6] = <<"cache_key">>
       /\ Len(text[3]) = 1
       /\ ParseU64(text[5]).tag = "Ok"
    THEN Ok(CachedResponse(text[3][1], ParseU64(text[5]).val, text[7]))
    ELSE Err("deserialization")

\* The store's glob match (KEYS pattern): "*" any run, "?" any one character.
RECURSIVE GlobMatch(_, _)
GlobMatch(pat, s) ==
    IF pat = <<>> THEN s = <<>>
    ELSE IF pat[1] = "*"
         THEN GlobMatch(Tail(pat), s) \/ (s # <<>> /\ GlobMatch(pat, Tail(s)))
         ELSE /\ s # <<>>
              /\ (pat[1] = "?" \/ pat[1] = s[1])
              /\ GlobMatch(Tail(pat), Tail(s))

\* ------------------------------------------------------------- the store
\* A stored value: the text, and the time at which it expires when volatile.
Absent == [present |-> FALSE, text |-> <<>>, volatile |-> FALSE, exp |-> 0]
Stored(text, volatile, exp) == [present |-> TRUE, text |-> text, volatile |-> volatile, exp |-> exp]

\* A write that sets no expiry (SET in place of SETEX).
StoreSetNoExpiry(s, key, text, ttl, t) == [s EXCEPT ![key] = Stored(text, FALSE, 0)]

\* A write that leaves a volatile entry its old expiry (SET .. KEEPTTL).
StoreSetExKeepTtl(s, key, text, ttl, t) ==
    [s EXCEPT ![key] = Stored(text, TRUE, IF s[key].present /\ s[key].volatile
                                          THEN s[key].exp ELSE t + ttl)]

\* SETEX key ttl text at time t (the store refuses a ttl of 0).
StoreSetEx(s, key, text, ttl, t) == [s EXCEPT ![key] = Stored(text, TRUE, t + ttl)]
\* SET key text, with no expiry.
StoreSet(s, key, text) == [s EXCEPT ![key] = Stored(text, FALSE, 0)]
\* SETNX key text: the new store and whether the key was set.
StoreSetNx(s, key, text) ==
    IF s[key].present THEN [store |-> s, reply |-> Ok(FALSE)]
    ELSE [store |-> StoreSet(s, key, text), reply |-> Ok(TRUE)]
\* SET key text NX EX ttl at time t: OK or nil, read as a bool; the store
\* answers a ttl of 0 with an error.
StoreSetNxEx(s, key, text, ttl, t) ==
    IF ttl = 0 THEN [store |-> s, reply |-> Err("invalid expire time")]
    ELSE IF s[key].present THEN [store |-> s, reply |-> Ok(FALSE)]
    ELSE [store |-> StoreSetEx(s, key, text, ttl, t), reply |-> Ok(TRUE)]
\* DEL key: the new store and the number of keys removed.
StoreDel(s, key) == [store |-> [s EXCEPT ![key] = Absent], count |-> IF s[key].present THEN 1 ELSE 0]
\* KEYS pattern
StoreKeysCmd(s, pattern) == {k \in DOMAIN s : s[k].present /\ GlobMatch(pattern, k)}
\* The store drops the entries whose time has come.
Expire(s, t) == [k \in DOMAIN s |-> IF s[k].present /\ s[k].volatile /\ s[k].exp <= t THEN Absent ELSE s[k]]

\* --------------------------------------------------------- configuration
\* std::env::var: an error when the variable is unset and when its value is
\* not Unicode.
EnvVar(env) ==
    IF ~env.set THEN Err("NotPresent")
    ELSE IF "xFF" \in Range(env.val) THEN Err("NotUnicode")
    ELSE Ok(env.val)
\* Option::unwrap_or_else(|_| default)
UnwrapOr(result, default) == IF result.tag = "Ok" THEN result.val ELSE default

\* str::to_lowercase (on the ASCII letters)
Uppercase == <<"A", "B", "C", "D", "E", "F", "G", "H", "I", "J", "K", "L", "M",
               "N", "O", "P", "Q", "R", "S", "T", "U", "V", "W", "X", "Y", "Z">>
Lowercase == <<"a", "b", "c", "d", "e", "f", "g", "h", "i", "j", "k", "l", "m",
               "n", "o", "p", "q", "r", "s", "t", "u", "v", "w", "x", "y", "z">>
LowerOf(c) ==
    IF c \in Range(Uppercase) THEN Lowercase[CHOOSE i \in 1..Len(Uppercase) : Uppercase[i] = c]
    ELSE c
ToLowercase(s) == [i \in 1..Len(s) |-> LowerOf(s[i])]

\* A comparison with "true" as written.
IsCacheEnabledExact(env) == UnwrapOr(EnvVar(env), <<"t", "r", "u", "e">>) = <<"t", "r", "u", "e">>

\* config::is_cache_enabled
is_cache_enabled(env) ==
    ToLowercase(UnwrapOr(EnvVar(env), <<"t", "r", "u", "e">>)) = <<"t", "r", "u", "e">>

\* config::get_cache_ttl
get_cache_ttl(env) ==
    LET text == UnwrapOr(EnvVar(env), <<"3", "6", "0", "0">>)
        parsed == ParseU64(text)
    IN  IF parsed.tag = "Ok" THEN parsed.val ELSE 3600

\* Client::open: the connection info of a URL with a Redis scheme.
ClientOpen(redis_uri) ==
    IF Len(redis_uri) >= 2 /\ redis_uri[1] \in {"redis://", "rediss://"}
    THEN Ok(redis_uri)
    ELSE Err("invalid url")

\* The construction of a connection or of a connection manager: the result,
\* the number of connections it tried to open and the URI it passed to
\* Client::open (none when it did not get that far).
Built(result, attempts, uri) ==
    [tag |-> result.tag, val |-> result.val, attempts |-> attempts, uri |-> uri]

\* config::create_redis_pool; `up` when the store accepts connections
create_redis_pool(redis_uri, up) ==
    LET client == ClientOpen(redis_uri)
    IN  IF client.tag = "Err" THEN Built(client, 0, redis_uri)
        ELSE IF up THEN Built(Ok("conn"), 1, redis_uri)
        ELSE Built(Err("connection refused"), 1, redis_uri)

\* config::get_redis_pool
get_redis_pool(url, up) ==
    LET env_redis_uri == EnvVar(url)
    IN  IF env_redis_uri.tag = "Ok" THEN create_redis_pool(env_redis_uri.val, up)
        ELSE Built(Err("REDIS_URL is not set"), 0, <<>>)

\* config::create_redis_conn_manager; `up` when the store accepts connections
create_redis_conn_manager(redis_uri, up) ==
    LET client == ClientOpen(redis_uri)
    IN  IF client.tag = "Err" THEN Built(client, 0, redis_uri)
        ELSE IF up THEN Built(Ok("conn"), 1, redis_uri)
        ELSE Built(Err("connection refused"), 1, redis_uri)

\* config::get_redis_conn_manager
get_redis_conn_manager(url, up) ==
    LET env_redis_uri == EnvVar(url)
    IN  IF env_redis_uri.tag = "Ok" THEN create_redis_conn_manager(env_redis_uri.val, up)
        ELSE Built(Err("REDIS_URL is not set"), 0, <<>>)

\* cli::Env and Env::default
Env(host, port, username, password) ==
    [redis_host |-> host, redis_port |-> port, redis_username |-> username,
     redis_password |-> password]
DefaultRedisPort == 6379
EnvDefault == Env(<<"127.0.0.1">>, DefaultRedisPort, <<>>, <<>>)

\* str::parse::<u16>
U16Max == 65535
ParseU16(s) ==
    LET parsed == ParseU64(s)
    IN  IF parsed.tag = "Ok" /\ parsed.val > U16Max THEN Err("overflow") ELSE parsed

\* cli::Env::from_env on the variables r: the Env, or a panic when REDIS_PORT
\* is no u16 (expect).
from_env(r) ==
    LET host == UnwrapOr(EnvVar(r.host), EnvDefault.redis_host)
        port == IF EnvVar(r.port).tag = "Ok" THEN ParseU16(EnvVar(r.port).val)
                ELSE Ok(EnvDefault.redis_port)
        username == UnwrapOr(EnvVar(r.username), EnvDefault.redis_username)
        password == UnwrapOr(EnvVar(r.password), EnvDefault.redis_password)
        with_fallback == IF password = <<>> THEN UnwrapOr(EnvVar(r.auth_password), password)
                         ELSE password
    IN  IF port.tag = "Ok"
        THEN [tag |-> "Ok", val |-> Env(host, port.val, username, with_fallback)]
        ELSE [tag |-> "Panic", val |-> EnvDefault]

\* cli::Env::to_redis_uri
to_redis_uri(env) ==
    LET host == env.redis_host
        port == DecStr(env.redis_port)
        username == env.redis_username
        password == env.redis_password
    IN  IF password # <<>>
        THEN IF username # <<>>
             THEN <<"redis://">> \o username \o <<":">> \o password \o <<"@">> \o host
                  \o <<":">> \o port
             ELSE <<"redis://", ":">> \o password \o <<"@">> \o host \o <<":">> \o port
        ELSE <<"redis://">> \o host \o <<":">> \o port

\* config::init_redis_vars: the value of REDIS_URL afterwards, or a panic
\* that leaves it as it was.
init_redis_vars(url, r) ==
    LET env == from_env(r)
    IN  IF env.tag = "Ok" THEN [tag |-> "Ok", url |-> EnvSet(to_redis_uri(env.val))]
        ELSE [tag |-> "Panic", url |-> url]

\* A construction that does not look at the cache-enabled flag.
GetConnManagerIgnoringFlag(enabled, url, up) ==
    LET built == get_redis_conn_manager(url, up)
    IN  IF built.tag = "Ok" THEN [conn |-> TRUE, attempts |-> built.attempts, out |-> "connected"]
        ELSE [conn |-> FALSE, attempts |-> built.attempts, out |-> "failed"]

\* config::get_redis_conn_manager_optional: whether there is a connection
\* (Some), the connections tried and the branch taken.
get_redis_conn_manager_optional(enabled, url, up) ==
    IF ~is_cache_enabled(enabled)
    THEN [conn |-> FALSE, attempts |-> 0, out |-> "disabled"]
    ELSE LET built == get_redis_conn_manager(url, up)
         IN  IF built.tag = "Ok"
             THEN [conn |-> TRUE, attempts |-> built.attempts, out |-> "connected"]
             ELSE [conn |-> FALSE, attempts |-> built.attempts, out |-> "failed"]

\* CacheManager::is_available
is_available(connected) == connected

\* ------------------------------------------------------ the cache facade
\* Each operator is one handler (or one leg of it between two awaits) of
\* CacheManager: from the connection, the store `s` and the inputs to the
\* store afterwards, the value returned (Pending when the handler goes on)
\* and the branch taken.
Effect(s, ret, out) == [store |-> s, ret |-> ret, out |-> out]

\* A set that does not look at the connection.
SetUnconditional(connected, s, key, data, ttl, t, ok) ==
    LET serialized == Serialize(data)
    IN  IF serialized.tag = "Err" THEN Effect(s, Err("serialization"), "ser_err")
        ELSE IF ok /\ ttl > 0
             THEN Effect(StoreSetEx(s, key, serialized.val, ttl, t), Ok(TRUE), "cmd_ok")
             ELSE Effect(s, Ok(FALSE), "cmd_err")

\* A set that turns the serialization error into false, as it does the
\* store's errors.
SetSwallowing(connected, s, key, data, ttl, t, ok) ==
    IF connected
    THEN LET serialized == Serialize(data)
         IN  IF serialized.tag = "Err" THEN Effect(s, Ok(FALSE), "ser_err")
             ELSE IF ok /\ ttl > 0
                  THEN Effect(StoreSetEx(s, key, serialized.val, ttl, t), Ok(TRUE), "cmd_ok")
                  ELSE Effect(s, Ok(FALSE), "cmd_err")
    ELSE Effect(s, Ok(FALSE), "no_conn")

\* CacheManager::set
set(connected, s, key, data, ttl, t, ok) ==
    IF connected
    THEN LET serialized == Serialize(data)
         IN  IF serialized.tag = "Err" THEN Effect(s, Err("serialization"), "ser_err")
             ELSE IF ok /\ ttl > 0
                  THEN Effect(StoreSetEx(s, key, serialized.val, ttl, t), Ok(TRUE), "cmd_ok")
                  ELSE Effect(s, Ok(FALSE), "cmd_err")
    ELSE Effect(s, Ok(FALSE), "no_conn")

\* The reply of GET read as a String (conn.get::<&str, String>): a nil reply
\* and bytes that are not UTF-8 are errors of the conversion.
FromRedisString(value) ==
    IF ~value.present THEN Err("response was nil")
    ELSE IF \E i \in 1..Len(value.text) : "xFF" \in Range(value.text[i])
         THEN Err("invalid utf-8")
         ELSE Ok(value.text)

\* A get that renews the expiry of the entry it finds (GETEX in place of GET).
GetRenewing(connected, s, key, ok) ==
    IF connected /\ ok /\ FromRedisString(s[key]).tag = "Ok"
    THEN LET response == Deserialize(s[key].text)
         IN  IF response.tag = "Ok"
             THEN Effect([s EXCEPT ![key].exp = @ + 1], Ok(Some(response.val)), "hit")
             ELSE Effect(s, Pending, "corrupt")
    ELSE IF ~connected THEN Effect(s, Ok(None), "no_conn")
    ELSE IF ~ok THEN Effect(s, Ok(None), "cmd_err")
    ELSE IF ~s[key].present THEN Effect(s, Ok(None), "miss")
    ELSE Effect(s, Ok(None), "type_err")

\* CacheManager::get, up to the answer of GET
get(connected, s, key, ok) ==
    IF connected
    THEN IF ok
         THEN LET cached_data == FromRedisString(s[key])
              IN  IF cached_data.tag = "Ok"
                  THEN LET response == Deserialize(cached_data.val)
                       IN  IF response.tag = "Ok"
                           THEN Effect(s, Ok(Some(response.val)), "hit")
                           ELSE Effect(s, Pending, "corrupt")
                  ELSE IF cached_data.val = "response was nil"
                       THEN Effect(s, Ok(None), "miss")
                       ELSE Effect(s, Ok(None), "type_err")
         ELSE Effect(s, Ok(None), "cmd_err")
    ELSE Effect(s, Ok(None), "no_conn")

\* A clean-up that only logs.
GetCleanupLogOnly(s, key, ok) == Effect(s, Ok(None), IF ok THEN "cleaned" ELSE "cmd_err")

\* CacheManager::get, the clean-up of a corrupted entry
get_cleanup(s, key, ok) ==
    IF ok
    THEN Effect(StoreDel(s, key).store, Ok(None), "cleaned")
    ELSE Effect(s, Ok(None), "cmd_err")

\* A delete that propagates the store's error (conn.del(key).await?).
DeletePropagating(connected, s, key, ok) ==
    IF connected
    THEN IF ok
         THEN Effect(StoreDel(s, key).store, Ok(StoreDel(s, key).count > 0), "cmd_ok")
         ELSE Effect(s, Err("store"), "cmd_err")
    ELSE Effect(s, Ok(FALSE), "no_conn")

\* A delete that reports success whenever the command was answered.
DeleteAnswered(connected, s, key, ok) ==
    IF connected
    THEN IF ok
         THEN Effect(StoreDel(s, key).store, Ok(StoreDel(s, key).count >= 0), "cmd_ok")
         ELSE Effect(s, Ok(FALSE), "cmd_err")
    ELSE Effect(s, Ok(FALSE), "no_conn")

\* CacheManager::delete
delete(connected, s, key, ok) ==
    IF connected
    THEN IF ok
         THEN LET deleted == StoreDel(s, key)
              IN  Effect(deleted.store, Ok(deleted.count > 0), "cmd_ok")
         ELSE Effect(s, Ok(FALSE), "cmd_err")
    ELSE Effect(s, Ok(FALSE), "no_conn")

\* CacheManager::clear_pattern, the listing: the keys to delete
clear_pattern_keys(s, pattern, ok) == IF ok THEN StoreKeysCmd(s, pattern) ELSE {}

\* A loop that keeps the last reply in place of the sum.
ClearDelLastCount(s, pattern, key, deleted_count, ok) ==
    IF ok
    THEN [store |-> StoreDel(s, key).store, count |-> StoreDel(s, key).count]
    ELSE [store |-> s, count |-> deleted_count]

\* A loop that deletes whatever matches the pattern at each turn.
ClearDelByPattern(s, pattern, key, deleted_count, ok) ==
    IF ok
    THEN [store |-> [k \in DOMAIN s |-> IF GlobMatch(pattern, k) THEN Absent ELSE s[k]],
          count |-> deleted_count + StoreDel(s, key).count]
    ELSE [store |-> s, count |-> deleted_count]

\* A loop that counts a deletion whether or not it was answered.
ClearDelCountAll(s, pattern, key, deleted_count, ok) ==
    IF ok
    THEN [store |-> StoreDel(s, key).store, count |-> deleted_count + StoreDel(s, key).count]
    ELSE [store |-> s, count |-> deleted_count + 1]

\* CacheManager::clear_pattern, one turn of the loop: the store and the count
clear_pattern_del(s, pattern, key, deleted_count, ok) ==
    IF ok
    THEN LET deleted == StoreDel(s, key)
         IN  [store |-> deleted.store, count |-> deleted_count + deleted.count]
    ELSE [store |-> s, count |-> deleted_count]

\* A cache_response that reports a write that did not happen.
CacheResponseStrict(connected, s, cache_prefix, request_data, response_data, ttl, t, ok) ==
    LET cache_key == CacheKeyOf[cache_prefix, request_data]
    IN  IF cache_key.tag = "Err" THEN Effect(s, Err("serialization"), "key_err")
        ELSE LET cached_response == CachedResponse(response_data, t, cache_key.val)
                 written == set(connected, s, cache_key.val, cached_response, ttl, t, ok)
             IN  IF written.ret.tag = "Err" THEN written
                 ELSE IF written.ret.val THEN Effect(written.store, Ok(cached_response), written.out)
                 ELSE Effect(written.store, Err("not written"), written.out)

\* CacheManager::cache_response
cache_response(connected, s, cache_prefix, request_data, response_data, ttl, t, ok) ==
    LET cache_key == CacheKeyOf[cache_prefix, request_data]
    IN  IF cache_key.tag = "Err" THEN Effect(s, Err("serialization"), "key_err")
        ELSE LET cached_response == CachedResponse(response_data, t, cache_key.val)
                 written == set(connected, s, cache_key.val, cached_response, ttl, t, ok)
             IN  IF written.ret.tag = "Err" THEN written
                 ELSE Effect(written.store, Ok(cached_response), written.out)

\* A lookup that leaves the prefix out of the key.
GetCachedResponseAnyPrefix(connected, s, cache_prefix, request_data, ok) ==
    LET cache_key == CacheKeyOf[<<"b">>, request_data]
    IN  IF cache_key.tag = "Err" THEN Effect(s, Err("serialization"), "key_err")
        ELSE get(connected, s, cache_key.val, ok)

\* CacheManager::get_cached_response, up to the answer of GET
get_cached_response(connected, s, cache_prefix, request_data, ok) ==
    LET cache_key == CacheKeyOf[cache_prefix, request_data]
    IN  IF cache_key.tag = "Err" THEN Effect(s, Err("serialization"), "key_err")
        ELSE get(connected, s, cache_key.val, ok)

\* str::split_once(':'): the text before and after the first colon.
FirstColon(line) == CHOOSE i \in 1..Len(line) : line[i] = ":" /\ \A j \in 1..(i - 1) : line[j] # ":"
split_once(line) ==
    IF \E i \in 1..Len(line) : line[i] = ":"
    THEN [found |-> TRUE,
          key |-> SubSeq(line, 1, FirstColon(line) - 1),
          value |-> SubSeq(line, FirstColon(line) + 1, Len(line))]
    ELSE [found |-> FALSE, key |-> <<>>, value |-> <<>>]

\* HashMap::insert on a map held as a set of <<key, value>> pairs.
MapInsert(map, key, value) == {p \in map : p[1] # key} \cup {<<key, value>>}

\* The loop of get_cache_info over the lines of the INFO reply.
RECURSIVE InfoStats(_, _)
InfoStats(lines, n) ==
    IF n = 0 THEN {}
    ELSE LET before == InfoStats(lines, n - 1)
             kv == split_once(lines[n])
         IN  IF kv.found THEN MapInsert(before, kv.key, kv.value) ELSE before

StatusKey == <<"s", "t", "a", "t", "u", "s">>
RedisNotAvailable == <<"R", "e", "d", "i", "s", " ", "n", "o", "t", " ", "a", "v", "a", "i", "l", "a", "b", "l", "e">>

\* Replies of INFO memory: lines of text.
InfoReplies ==
    { << <<"#", " ", "M">>, <<"u", ":", "1">>, <<"p", ":", "a", ":", "b">> >>,
      << <<"u", ":", "1">>, <<"u", ":", "2">> >> }

\* Statistics with no entry at all when there is no connection.
GetCacheInfoEmptyWhenDown(connected, reply, ok) ==
    IF connected
    THEN LET info == IF ok THEN reply ELSE <<>>
         IN  Ok(InfoStats(info, Len(info)))
    ELSE Ok({})

\* CacheManager::get_cache_info
get_cache_info(connected, reply, ok) ==
    IF connected
    THEN LET info == IF ok THEN reply ELSE <<>>
         IN  Ok(InfoStats(info, Len(info)))
    ELSE Ok({<<StatusKey, RedisNotAvailable>>})

\* ------------------------------------------------ the set-if-absent helpers
\* Each operator is one helper of operations.rs on the connection it is
\* given: the store afterwards, the value returned (Panicked when an unwrap
\* aborts the task) and the branch taken.

\* operations::set_if_not_exist
set_if_not_exist(s, key, data, ok) ==
    IF ok
    THEN LET res == StoreSetNx(s, key, data)
         IN  Effect(res.store, res.reply, "cmd_ok")
    ELSE Effect(s, Panicked, "panic")

\* The expiry that set_with_options reads from IDEMPOTENT_EXPIRY_IN_SEC.
DefaultExpiryInSec == 120
expiry_in_sec(env) ==
    LET parsed == ParseU64(UnwrapOr(EnvVar(env), <<"1", "2", "0">>))
    IN  IF parsed.tag = "Ok" THEN parsed.val ELSE DefaultExpiryInSec

\* operations::set_with_options
set_with_options(s, key, data, env, t, ok) ==
    IF ok
    THEN LET res == StoreSetNxEx(s, key, data, expiry_in_sec(env), t)
         IN  IF res.reply.tag = "Ok" THEN Effect(res.store, res.reply, "cmd_ok")
             ELSE Effect(s, Panicked, "panic")
    ELSE Effect(s, Panicked, "panic")

\* --------------------------------------------- the publish/subscribe helpers
\* Each operator is one helper of operations.rs: from REDIS_URL, whether the
\* store accepts connections, the channels `ps` and the fate of the store
\* command, to the channels afterwards, the connections tried, the value
\* returned (Panicked when an unwrap aborts the task) and the branch taken.
Sent(ps, attempts, ret, out) == [pubsub |-> ps, attempts |-> attempts, ret |-> ret, out |-> out]

\* operations::broadcasting_data
broadcasting_data(url, up, ps, db_channel, data, ok) ==
    LET connection == get_redis_pool(url, up)
    IN  IF connection.tag = "Err" THEN Sent(ps, connection.attempts, Panicked, "panic_conn")
        ELSE IF ok
             THEN Sent([ps EXCEPT !.published = Append(@, <<db_channel, data>>)],
                       connection.attempts, Ok(TRUE), "cmd_ok")
             ELSE Sent(ps, connection.attempts, Panicked, "panic_cmd")

\* operations::subscribe_data, for the task c
subscribe_data(url, up, ps, c, db_channel, ok) ==
    LET connection == get_redis_pool(url, up)
    IN  IF connection.tag = "Err" THEN Sent(ps, connection.attempts, Panicked, "panic_conn")
        ELSE IF ok
             THEN Sent([ps EXCEPT !.subscribed = @ \cup {<<c, db_channel>>}],
                       connection.attempts, Ok(TRUE), "cmd_ok")
             ELSE Sent(ps, connection.attempts, Panicked, "panic_cmd")

\* ------------------------------------------------------------------ state
VARIABLES
    store,     \* the store: key -> stored value
    now,       \* the store's clock, in seconds
    ttl_env,   \* the CACHE_TTL_SECONDS environment variable
    conn,      \* conn[m]: manager m holds a connection (CacheManager.conn is Some)
    call,      \* call[m]: the handler m is in, between two store commands
    last_set,  \* history: per key, the last write and what became of it
    ev,        \* history: the step just taken and what it returned
    calls,     \* calls started plus seconds elapsed
    derived,   \* history: the calls of generate_cache_key the application made
    enabled_env,  \* the CACHE_ENABLED environment variable
    url_env,      \* the REDIS_URL environment variable
    reachable,    \* the store accepts connections
    connects,     \* history: the connections opened to the store
    expiry_env,   \* the IDEMPOTENT_EXPIRY_IN_SEC environment variable
    round,        \* history: per key, the set-if-absent calls since it was last gone
    redis_env,    \* REDIS_HOST, REDIS_PORT, REDIS_USERNAME, REDIS_PASSWORD, REDIS_AUTH_PASSWORD
    pubsub,       \* the store's channels: what was published and who subscribed
    url_given     \* history: REDIS_URL as the process was started, and init_redis_vars run

vars == <<store, now, ttl_env, conn, call, last_set, ev, calls, derived, enabled_env, url_env,
          reachable, connects, expiry_env, round, redis_env, pubsub, url_given>>
\* What the construction of a manager reads and counts.
setup == <<enabled_env, url_env, reachable, connects>>
\* What the helpers of operations.rs and init_redis_vars read and keep.
helpers == <<expiry_env, round, redis_env, pubsub, url_given>>

\* History of the set-if-absent calls on one key since the key was last gone
\* (or since the start): whether the key was absent then, the calls made,
\* those that returned true and those that aborted their task.
NoRound == [absent |-> TRUE, calls |-> 0, trues |-> 0, aborted |-> 0]
\* The helpers' part of the state when nothing has used them: the variables
\* of Env::from_env unset, no message published and no subscription.
HelpersInit ==
    /\ expiry_env = EnvUnset
    /\ round = [k \in StoreKeys |-> NoRound]
    /\ redis_env = [host |-> EnvUnset, port |-> EnvUnset, username |-> EnvUnset,
                    password |-> EnvUnset, auth_password |-> EnvUnset]
    /\ pubsub = [published |-> <<>>, subscribed |-> {}]
    /\ url_given = [env |-> url_env, init_ran |-> FALSE]

\* A manager between calls (one not yet constructed has pc "new").
Idle ==
    [pc |-> "idle", key |-> <<>>, remaining |-> {}, deleted_count |-> 0,
     listed |-> {}, removed |-> {}, failed |-> {}, late |-> {}, disturbed |-> FALSE]

\* History of one key: `valid` when the last write of the key was a set that
\* returned true, with its envelope and the time its TTL ends; `deleted` when
\* a DEL has removed the key since; `cleaned` when that DEL was the clean-up
\* of a get and no DEL of a delete or clear_pattern was applied after it.
NoSet ==
    [valid |-> FALSE, env |-> NoEnvelope, deadline |-> 0, deleted |-> FALSE, cleaned |-> FALSE]

\* The history of a call of clear_pattern, kept with the event that ends it.
NoTrace == [listed |-> {}, removed |-> {}, failed |-> {}, late |-> {}, disturbed |-> FALSE]
TraceOf(c) ==
    [listed |-> c.listed, removed |-> c.removed, failed |-> c.failed, late |-> c.late,
     disturbed |-> c.disturbed]

\* The step just taken: the handler and the manager, its key (or pattern, or
\* prefix), request (or the reply to INFO) and envelope (or payload), the
\* branch taken, the value
\* returned (Pending when the handler goes on) and the call's history.
Event(op, m, key, arg, env, out, ret, trace) ==
    [op |-> op, m |-> m, key |-> key, arg |-> arg, env |-> env, out |-> out, ret |-> ret,
     trace |-> trace]

\* What a change of key k by `self` means to the calls the others are in:
\* they have been disturbed; a key written that matches the pattern of a
\* clear_pattern and was not listed by it is a late key, until it is removed.
Disturb(c, self, k, written) ==
    [m \in Managers |->
        IF m = self \/ c[m].pc = "idle" THEN c[m]
        ELSE [c[m] EXCEPT
                !.disturbed = TRUE,
                !.late = IF written
                         THEN IF c[m].pc = "clear" /\ GlobMatch(c[m].key, k) /\ k \notin c[m].listed
                              THEN @ \cup {k} ELSE @
                         ELSE @ \ {k}]]

\* The calls after `self` has taken a step from store s to store s2.
Others(c, self, s, s2, k) ==
    IF s2[k] = s[k] THEN c ELSE Disturb(c, self, k, s2[k].present)

\* The history of key k after a set of k (valid when it returned true), and
\* after a step that took the store from s to s2.
Written(ls, k, env, valid, deadline) ==
    IF valid
    THEN [ls EXCEPT ![k] = [valid |-> TRUE, env |-> env, deadline |-> deadline,
                            deleted |-> FALSE, cleaned |-> FALSE]]
    ELSE ls
Removed(ls, s, s2, k) ==
    IF s[k].present /\ ~s2[k].present THEN [ls EXCEPT ![k].deleted = TRUE] ELSE ls
\* The history of key k after the clean-up of a get, and after a DEL of
\* delete or clear_pattern (applied when the store answered it).
Cleaned(ls, s, s2, k) ==
    IF s[k].present /\ ~s2[k].present
    THEN [ls EXCEPT ![k].deleted = TRUE, ![k].cleaned = TRUE]
    ELSE ls
Deleted(ls, s, s2, k, applied) ==
    [Removed(ls, s, s2, k) EXCEPT ![k].cleaned = @ /\ ~applied]

\* The store when the managers are constructed: empty, or as left at time 0
\* by a set("b0", CachedResponse::new("d1", "b0")) that returned true and by
\* another client's write of bytes that are no envelope at "c0".
Init ==
    /\ now = 0
    /\ ttl_env \in TtlEnvValues
    /\ \/ /\ store = [k \in StoreKeys |-> Absent]
          /\ last_set = [k \in StoreKeys |-> NoSet]
       \/ /\ store = StoreSet(StoreSetEx([k \in StoreKeys |-> Absent], KeyB0,
                                         Serialize(CachedResponse("d1", 0, KeyB0)).val,
                                         get_cache_ttl(ttl_env), 0),
                             KeyC0, Garbage)
          /\ last_set = Written([k \in StoreKeys |-> NoSet], KeyB0,
                                CachedResponse("d1", 0, KeyB0), TRUE, get_cache_ttl(ttl_env))
    /\ conn \in {[m \in Managers |-> TRUE], [m \in Managers |-> m # "m1"]}
    /\ call = [m \in Managers |-> Idle]
    /\ ev = Event("init", "ext", <<>>, <<>>, NoEnvelope, "none", Pending, NoTrace)
    /\ calls = 0
    /\ derived = <<>>
    /\ enabled_env = EnvUnset
    /\ url_env = EnvSet(RedisUrl)
    /\ reachable = TRUE
    /\ connects = 0
    /\ HelpersInit

\* Envelopes a caller passes to set(key, _): CachedResponse::new(d, key) for
\* a payload d, or (the fields are public) an envelope built for another key.
OtherKey == KeyC0
Envelopes(key) ==
    {CachedResponse("d1", now, key), CachedResponse("d2", now, OtherKey),
     CachedResponse("unser", now, key)}

\* Whether the input `ok` of a step reaches the code: it is the fate of the
\* store command, and is fixed to TRUE when the step issues none.
Issues(out) == out \notin {"no_conn", "ser_err", "key_err"}
Fate(out, ok) == Issues(out) \/ ok

\* The managers are interchangeable while they are connected and between
\* calls: m2 starts a call only when m1 is in one or holds no connection.
MayStart(m) ==
    /\ call[m].pc = "idle" /\ calls < MaxSteps
    /\ (m = "m1" \/ call["m1"].pc # "idle" \/ ~conn["m1"])

Set(m, key, data, ok) ==
    /\ MayStart(m)
    /\ LET e == set(conn[m], store, key, data, get_cache_ttl(ttl_env), now, ok)
       IN  /\ Fate(e.out, ok)
           /\ store' = e.store
           /\ last_set' = Written(last_set, key, data, e.out = "cmd_ok",
                                  now + get_cache_ttl(ttl_env))
           /\ call' = Others(call, m, store, e.store, key)
           /\ ev' = Event("set", m, key, <<>>, data, e.out, e.ret, NoTrace)
    /\ calls' = calls + 1
    /\ UNCHANGED <<now, ttl_env, conn, derived, setup, helpers>>

Get(m, key, ok) ==
    /\ MayStart(m)
    /\ LET e == get(conn[m], store, key, ok)
       IN  /\ Fate(e.out, ok)
           /\ store' = e.store
           /\ call' = IF e.out = "corrupt"
                      THEN [call EXCEPT ![m] = [Idle EXCEPT !.pc = "get", !.key = key]]
                      ELSE call
           /\ ev' = Event("get", m, key, <<>>, NoEnvelope, e.out, e.ret, NoTrace)
    /\ calls' = calls + 1
    /\ UNCHANGED <<now, ttl_env, conn, last_set, derived, setup, helpers>>

GetCleanup(m, ok) ==
    /\ call[m].pc = "get"
    /\ LET key == call[m].key
           e == get_cleanup(store, key, ok)
       IN  /\ store' = e.store
           /\ last_set' = Cleaned(last_set, store, e.store, key)
           /\ call' = [Others(call, m, store, e.store, key) EXCEPT ![m] = Idle]
           /\ ev' = Event("get_cleanup", m, key, <<>>, NoEnvelope, e.out, e.ret, TraceOf(call[m]))
    /\ UNCHANGED <<now, ttl_env, conn, calls, derived, setup, helpers>>

Delete(m, key, ok) ==
    /\ MayStart(m)
    /\ LET e == delete(conn[m], store, key, ok)
       IN  /\ Fate(e.out, ok)
           /\ store' = e.store
           /\ last_set' = Deleted(last_set, store, e.store, key, e.out = "cmd_ok")
           /\ call' = Others(call, m, store, e.store, key)
           /\ ev' = Event("delete", m, key, <<>>, NoEnvelope, e.out, e.ret, NoTrace)
    /\ calls' = calls + 1
    /\ UNCHANGED <<now, ttl_env, conn, derived, setup, helpers>>

\* clear_pattern up to the answer of KEYS; with nothing listed it returns.
ClearPattern(m, pattern, ok) ==
    /\ MayStart(m)
    /\ IF conn[m]
       THEN LET keys == clear_pattern_keys(store, pattern, ok)
                c == [Idle EXCEPT !.pc = "clear", !.key = pattern, !.remaining = keys,
                                  !.listed = keys]
            IN  IF keys = {}
                THEN /\ call' = call
                     /\ ev' = Event("clear_pattern", m, pattern, <<>>, NoEnvelope,
                                    IF ok THEN "cmd_ok" ELSE "cmd_err", Ok(0), TraceOf(c))
                ELSE /\ call' = [call EXCEPT ![m] = c]
                     /\ ev' = Event("clear_pattern", m, pattern, <<>>, NoEnvelope, "cmd_ok",
                                    Pending, TraceOf(c))
       ELSE /\ ok
            /\ call' = call
            /\ ev' = Event("clear_pattern", m, pattern, <<>>, NoEnvelope, "no_conn", Ok(0), NoTrace)
    /\ calls' = calls + 1
    /\ UNCHANGED <<store, now, ttl_env, conn, last_set, derived, setup, helpers>>

\* One turn of the loop of clear_pattern: DEL of the next listed key (the
\* store lists the keys in an order of its own); after the last it returns.
ClearPatternDel(m, key, ok) ==
    /\ call[m].pc = "clear"
    /\ key \in call[m].remaining
    /\ LET e == clear_pattern_del(store, call[m].key, key, call[m].deleted_count, ok)
           c == [call[m] EXCEPT
                    !.remaining = @ \ {key},
                    !.deleted_count = e.count,
                    !.removed = IF store[key].present /\ ~e.store[key].present
                                THEN @ \cup {key} ELSE @,
                    !.failed = IF ok THEN @ ELSE @ \cup {key}]
           last == c.remaining = {}
       IN  /\ store' = e.store
           /\ last_set' = Deleted(last_set, store, e.store, key, ok)
           /\ call' = [Others(call, m, store, e.store, key) EXCEPT
                          ![m] = IF last THEN Idle ELSE c]
           /\ ev' = Event("clear_pattern_del", m, call[m].key, <<>>, NoEnvelope,
                          IF ok THEN "cmd_ok" ELSE "cmd_err",
                          IF last THEN Ok(c.deleted_count) ELSE Pending, TraceOf(c))
    /\ UNCHANGED <<now, ttl_env, conn, calls, derived, setup, helpers>>

CacheResponse(m, cache_prefix, request_data, response_data, ok) ==
    /\ MayStart(m)
    /\ LET e == cache_response(conn[m], store, cache_prefix, request_data, response_data,
                               get_cache_ttl(ttl_env), now, ok)
           cache_key == CacheKeyOf[cache_prefix, request_data]
       IN  /\ Fate(e.out, ok)
           /\ store' = e.store
           /\ IF cache_key.tag = "Ok"
              THEN /\ last_set' = Written(last_set, cache_key.val,
                                          CachedResponse(response_data, now, cache_key.val),
                                          e.out = "cmd_ok", now + get_cache_ttl(ttl_env))
                   /\ call' = Others(call, m, store, e.store, cache_key.val)
              ELSE UNCHANGED <<last_set, call>>
           /\ ev' = Event("cache_response", m, cache_prefix, request_data,
                          CachedResponse(response_data, now, <<>>), e.out, e.ret, NoTrace)
    /\ calls' = calls + 1
    /\ UNCHANGED <<now, ttl_env, conn, derived, setup, helpers>>

\* get_cached_response up to the answer of GET; the clean-up of a corrupted
\* entry is the step GetCleanup, as for get.
GetCachedResponse(m, cache_prefix, request_data, ok) ==
    /\ MayStart(m)
    /\ LET e == get_cached_response(conn[m], store, cache_prefix, request_data, ok)
           cache_key == CacheKeyOf[cache_prefix, request_data]
       IN  /\ Fate(e.out, ok)
           /\ store' = e.store
           /\ call' = IF e.out = "corrupt"
                      THEN [call EXCEPT ![m] = [Idle EXCEPT !.pc = "get", !.key = cache_key.val]]
                      ELSE call
           /\ ev' = Event("get_cached_response", m, cache_prefix, request_data, NoEnvelope,
                          e.out, e.ret, NoTrace)
    /\ calls' = calls + 1
    /\ UNCHANGED <<now, ttl_env, conn, last_set, derived, setup, helpers>>

GetCacheInfo(m, reply, ok) ==
    /\ MayStart(m)
    /\ conn[m] \/ ok
    /\ ev' = Event("get_cache_info", m, <<>>, IF conn[m] /\ ok THEN reply ELSE <<>>, NoEnvelope,
                   IF ~conn[m] THEN "no_conn" ELSE IF ok THEN "cmd_ok" ELSE "cmd_err",
                   get_cache_info(conn[m], reply, ok), NoTrace)
    /\ calls' = calls + 1
    /\ UNCHANGED <<store, now, ttl_env, conn, call, last_set, derived, setup, helpers>>

\* The application derives a key itself (generate_cache_key is an associated
\* function: it takes no manager and reaches no store).
GenerateCacheKey(prefix, request_data) ==
    /\ calls < MaxSteps
    /\ LET cache_key == generate_cache_key(prefix, request_data)
       IN  /\ derived' = Append(derived, [prefix |-> prefix, request |-> request_data,
                                          ret |-> cache_key])
           /\ ev' = Event("generate_cache_key", "app", prefix, request_data, NoEnvelope,
                          IF cache_key.tag = "Ok" THEN "key_ok" ELSE "key_err", cache_key,
                          NoTrace)
    /\ calls' = calls + 1
    /\ UNCHANGED <<store, now, ttl_env, conn, call, last_set, setup, helpers>>

\* Another client of the store writes bytes that are not an envelope at key.
RawWrite(key, value) ==
    /\ calls < MaxSteps
    /\ store' = StoreSet(store, key, value)
    /\ last_set' = [last_set EXCEPT ![key] = NoSet]
    /\ call' = Others(call, "ext", store, store', key)
    /\ ev' = Event("raw_write", "ext", key, <<>>, NoEnvelope, "cmd_ok", Pending, NoTrace)
    /\ calls' = calls + 1
    /\ UNCHANGED <<now, ttl_env, conn, derived, setup, helpers>>

\* A second passes; the store drops what has expired.
Tick ==
    /\ calls < MaxSteps
    /\ calls' = calls + 1
    /\ now' = now + 1
    /\ store' = Expire(store, now + 1)
    /\ call' = [m \in Managers |->
                  IF call[m].pc = "idle" \/ store' = store THEN call[m]
                  ELSE [call[m] EXCEPT !.disturbed = TRUE,
                                       !.late = {k \in @ : store'[k].present}]]
    /\ ev' = Event("tick", "ext", <<>>, <<>>, NoEnvelope, "none", Pending, NoTrace)
    /\ round' = [k \in StoreKeys |->
                   IF store[k].present /\ ~store'[k].present THEN NoRound ELSE round[k]]
    /\ UNCHANGED <<ttl_env, conn, last_set, derived, setup, expiry_env, redis_env, pubsub,
                   url_given>>

Next ==
    \/ \E m \in Managers, key \in DirectKeys, ok \in BOOLEAN :
          \E data \in Envelopes(key) : Set(m, key, data, ok)
    \/ \E m \in Managers, key \in DirectKeys, ok \in BOOLEAN : Get(m, key, ok)
    \/ \E m \in Managers, ok \in BOOLEAN : GetCleanup(m, ok)
    \/ \E m \in Managers, key \in DirectKeys, ok \in BOOLEAN : Delete(m, key, ok)
    \/ \E m \in Managers, pattern \in Patterns, ok \in BOOLEAN : ClearPattern(m, pattern, ok)
    \/ \E m \in Managers, ok \in BOOLEAN :
          \E key \in call[m].remaining : ClearPatternDel(m, key, ok)
    \/ \E m \in Managers, p \in Prefixes, r \in Requests, v \in ResponseValues, ok \in BOOLEAN :
          CacheResponse(m, p, r, v, ok)
    \/ \E m \in Managers, p \in Prefixes, r \in Requests, ok \in BOOLEAN :
          GetCachedResponse(m, p, r, ok)
    \/ \E m \in Managers, reply \in InfoReplies, ok \in BOOLEAN : GetCacheInfo(m, reply, ok)
    \/ \E key \in DirectKeys, value \in RawValues : RawWrite(key, value)
    \/ Tick

Spec == Init /\ [][Next]_vars

\* ------------------------------------------------- the key deriver alone
\* The application calls generate_cache_key on prefixes and requests of its
\* choice; the store and the managers are left as they were constructed.
KeyInit ==
    /\ Init
    /\ ttl_env = EnvUnset
    /\ store = [k \in StoreKeys |-> Absent]
    /\ conn = [m \in Managers |-> TRUE]
KeyNext == \E p \in KeyPrefixes, r \in KeyRequests : GenerateCacheKey(p, r)
KeySpec == KeyInit /\ [][KeyNext]_vars

\* --------------------------------------------- the configuration alone
\* The application reads the configuration; the variables CACHE_ENABLED and
\* CACHE_TTL_SECONDS hold whatever the environment was started with.
IsCacheEnabled ==
    /\ calls < MaxSteps
    /\ ev' = Event("is_cache_enabled", "app", <<>>, <<>>, NoEnvelope, "none",
                   Ok(is_cache_enabled(enabled_env)), NoTrace)
    /\ calls' = calls + 1
    /\ UNCHANGED <<store, now, ttl_env, conn, call, last_set, derived, setup, helpers>>

GetCacheTtl ==
    /\ calls < MaxSteps
    /\ ev' = Event("get_cache_ttl", "app", <<>>, <<>>, NoEnvelope, "none",
                   Ok(get_cache_ttl(ttl_env)), NoTrace)
    /\ calls' = calls + 1
    /\ UNCHANGED <<store, now, ttl_env, conn, call, last_set, derived, setup, helpers>>

EnvInit ==
    /\ now = 0
    /\ ttl_env \in WideTtlEnvValues
    /\ enabled_env \in EnabledEnvValues
    /\ url_env = EnvSet(RedisUrl)
    /\ reachable = TRUE
    /\ connects = 0
    /\ store = [k \in StoreKeys |-> Absent]
    /\ last_set = [k \in StoreKeys |-> NoSet]
    /\ conn = [m \in Managers |-> TRUE]
    /\ call = [m \in Managers |-> Idle]
    /\ ev = Event("init", "ext", <<>>, <<>>, NoEnvelope, "none", Pending, NoTrace)
    /\ calls = 0
    /\ derived = <<>>
    /\ HelpersInit
EnvNext == IsCacheEnabled \/ GetCacheTtl
EnvSpec == EnvInit /\ [][EnvNext]_vars

\* ------------------------------------------- construction of managers
\* CacheManager::new
New(m) ==
    /\ call[m].pc = "new"
    /\ LET c == get_redis_conn_manager_optional(enabled_env, url_env, reachable)
       IN  /\ conn' = [conn EXCEPT ![m] = c.conn]
           /\ connects' = connects + c.attempts
           /\ ev' = Event("new", m, <<>>, <<>>, NoEnvelope, c.out, Ok(c.conn), NoTrace)
    /\ call' = [call EXCEPT ![m] = Idle]
    /\ UNCHANGED <<store, now, ttl_env, last_set, calls, derived, enabled_env, url_env, reachable,
                   helpers>>

IsAvailable(m) ==
    /\ MayStart(m)
    /\ ev' = Event("is_available", m, <<>>, <<>>, NoEnvelope, "none", Ok(is_available(conn[m])),
                   NoTrace)
    /\ calls' = calls + 1
    /\ UNCHANGED <<store, now, ttl_env, conn, call, last_set, derived, setup, helpers>>

\* The store starts or stops accepting connections.
Reach ==
    /\ calls < MaxSteps
    /\ reachable' = ~reachable
    /\ ev' = Event("reach", "ext", <<>>, <<>>, NoEnvelope, "none", Pending, NoTrace)
    /\ calls' = calls + 1
    /\ UNCHANGED <<store, now, ttl_env, conn, call, last_set, derived, enabled_env, url_env,
                   connects, helpers>>

\* The application sets CACHE_ENABLED and REDIS_URL.
SetEnabledEnv(value) ==
    /\ calls < MaxSteps
    /\ value # enabled_env
    /\ enabled_env' = value
    /\ ev' = Event("set_var", "app", <<>>, <<>>, NoEnvelope, "none", Pending, NoTrace)
    /\ calls' = calls + 1
    /\ UNCHANGED <<store, now, ttl_env, conn, call, last_set, derived, url_env, reachable,
                   connects, helpers>>

SetUrlEnv(value) ==
    /\ calls < MaxSteps
    /\ value # url_env
    /\ url_env' = value
    /\ ev' = Event("set_var", "app", <<>>, <<>>, NoEnvelope, "none", Pending, NoTrace)
    /\ calls' = calls + 1
    /\ UNCHANGED <<store, now, ttl_env, conn, call, last_set, derived, enabled_env, reachable,
                   connects, helpers>>

\* No manager is constructed yet; the store holds a value that is no
\* envelope at "c0".
CtorInit ==
    /\ now = 0
    /\ ttl_env = EnvUnset
    /\ enabled_env \in CtorEnabledEnvValues
    /\ url_env \in UrlEnvValues
    /\ reachable \in BOOLEAN
    /\ connects = 0
    /\ store = StoreSet([k \in StoreKeys |-> Absent], KeyC0, Garbage)
    /\ last_set = [k \in StoreKeys |-> NoSet]
    /\ conn = [m \in Managers |-> FALSE]
    /\ call = [m \in Managers |-> [Idle EXCEPT !.pc = "new"]]
    /\ ev = Event("init", "ext", <<>>, <<>>, NoEnvelope, "none", Pending, NoTrace)
    /\ calls = 0
    /\ derived = <<>>
    /\ HelpersInit

\* The managers are constructed and used, on one key, pattern, prefix and
\* request, while the environment and the store's reachability change.
CtorNext ==
    \/ \E m \in Managers : New(m)
    \/ \E m \in Managers : IsAvailable(m)
    \/ Reach
    \/ \E value \in CtorEnabledEnvValues : SetEnabledEnv(value)
    \/ \E value \in UrlEnvValues : SetUrlEnv(value)
    \/ \E m \in Managers, ok \in BOOLEAN : Set(m, KeyC0, CachedResponse("d1", now, KeyC0), ok)
    \/ \E m \in Managers, ok \in BOOLEAN : Get(m, KeyC0, ok)
    \/ \E m \in Managers, ok \in BOOLEAN : GetCleanup(m, ok)
    \/ \E m \in Managers, ok \in BOOLEAN : Delete(m, KeyC0, ok)
    \/ \E m \in Managers, ok \in BOOLEAN : ClearPattern(m, <<"?", "0">>, ok)
    \/ \E m \in Managers, ok \in BOOLEAN :
          \E key \in call[m].remaining : ClearPatternDel(m, key, ok)
    \/ \E m \in Managers, ok \in BOOLEAN : CacheResponse(m, <<"b">>, ReqA, "d1", ok)
    \/ \E m \in Managers, ok \in BOOLEAN : GetCachedResponse(m, <<"b">>, ReqA, ok)
    \/ \E m \in Managers, reply \in InfoReplies, ok \in BOOLEAN : GetCacheInfo(m, reply, ok)
CtorSpec == CtorInit /\ [][CtorNext]_vars

\* -------------------------------------- the facade while the TTL changes
\* The application sets CACHE_TTL_SECONDS between two calls of the facade.
SetTtlEnv(value) ==
    /\ calls < MaxSteps
    /\ value # ttl_env
    /\ ttl_env' = value
    /\ ev' = Event("set_var", "app", <<>>, <<>>, NoEnvelope, "none", Pending, NoTrace)
    /\ calls' = calls + 1
    /\ UNCHANGED <<store, now, conn, call, last_set, derived, setup, helpers>>

TtlInit == Init /\ conn = [m \in Managers |-> TRUE]
TtlNext ==
    \/ Next
    \/ \E value \in TtlChoices : SetTtlEnv(value)
TtlSpec == TtlInit /\ [][TtlNext]_vars

\* ------------------------------------ the facade and the key deriver
\* The application also derives keys itself between the calls of the facade.
AppNext ==
    \/ Next
    \/ \E p \in Prefixes, r \in Requests : GenerateCacheKey(p, r)
AppSpec == Init /\ [][AppNext]_vars

\* ----------------------------------------- the set-if-absent helpers alone
\* Calls started plus seconds elapsed in a behaviour of the helpers: enough
\* for a second round on a key after its entry has expired.
HelperSteps == MaxSteps + 1

\* The history of key k after a call that returned ret.
Asked(r, k, ret) ==
    [r EXCEPT ![k].calls = @ + 1,
              ![k].trues = IF ret.tag = "Ok" /\ ret.val THEN @ + 1 ELSE @,
              ![k].aborted = IF ret.tag = "Panic" THEN @ + 1 ELSE @]

SetIfNotExist(c, key, ok) ==
    /\ calls < HelperSteps
    /\ LET e == set_if_not_exist(store, key, TokenOf[c], ok)
       IN  /\ store' = e.store
           /\ round' = Asked(round, key, e.ret)
           /\ ev' = Event("set_if_not_exist", c, key, TokenOf[c], NoEnvelope, e.out, e.ret,
                          NoTrace)
    /\ calls' = calls + 1
    /\ UNCHANGED <<now, ttl_env, conn, call, last_set, derived, setup, expiry_env, redis_env,
                   pubsub, url_given>>

SetWithOptions(c, key, ok) ==
    /\ calls < HelperSteps
    /\ LET e == set_with_options(store, key, TokenOf[c], expiry_env, now, ok)
       IN  /\ store' = e.store
           /\ round' = Asked(round, key, e.ret)
           /\ ev' = Event("set_with_options", c, key, TokenOf[c], NoEnvelope, e.out, e.ret,
                          NoTrace)
    /\ calls' = calls + 1
    /\ UNCHANGED <<now, ttl_env, conn, call, last_set, derived, setup, expiry_env, redis_env,
                   pubsub, url_given>>

\* The application sets IDEMPOTENT_EXPIRY_IN_SEC.
SetExpiryEnv(value) ==
    /\ calls < HelperSteps
    /\ value # expiry_env
    /\ expiry_env' = value
    /\ ev' = Event("set_var", "app", <<>>, <<>>, NoEnvelope, "none", Pending, NoTrace)
    /\ calls' = calls + 1
    /\ UNCHANGED <<store, now, ttl_env, conn, call, last_set, derived, setup, round, redis_env,
                   pubsub, url_given>>

\* The store is empty, or "b0" holds a value with no expiry that a set_data
\* left there.
IdemInit ==
    /\ now = 0
    /\ ttl_env = EnvUnset
    /\ enabled_env = EnvUnset
    /\ url_env = EnvSet(RedisUrl)
    /\ reachable = TRUE
    /\ connects = 0
    /\ store \in {[k \in StoreKeys |-> Absent], StoreSet([k \in StoreKeys |-> Absent], KeyB0, Garbage)}
    /\ last_set = [k \in StoreKeys |-> NoSet]
    /\ conn = [m \in Managers |-> TRUE]
    /\ call = [m \in Managers |-> Idle]
    /\ ev = Event("init", "ext", <<>>, <<>>, NoEnvelope, "none", Pending, NoTrace)
    /\ calls = 0
    /\ derived = <<>>
    /\ expiry_env \in ExpiryEnvValues
    /\ round = [k \in StoreKeys |-> [NoRound EXCEPT !.absent = ~store[k].present]]
    /\ redis_env = [host |-> EnvUnset, port |-> EnvUnset, username |-> EnvUnset,
                    password |-> EnvUnset, auth_password |-> EnvUnset]
    /\ pubsub = [published |-> <<>>, subscribed |-> {}]
    /\ url_given = [env |-> url_env, init_ran |-> FALSE]

IdemNext ==
    \/ \E c \in Tasks, key \in DirectKeys, ok \in BOOLEAN : SetIfNotExist(c, key, ok)
    \/ \E c \in Tasks, key \in DirectKeys, ok \in BOOLEAN : SetWithOptions(c, key, ok)
    \/ \E value \in ExpiryEnvValues : SetExpiryEnv(value)
    \/ Tick
IdemSpec == IdemInit /\ [][IdemNext]_vars

\* ------------------------------------------------ the connection URI
\* The application calls init_redis_vars and the connection constructors in
\* whatever order, in an environment that was started with or without
\* REDIS_URL.
InitRedisVars ==
    /\ calls < MaxSteps
    /\ LET e == init_redis_vars(url_env, redis_env)
       IN  /\ url_env' = e.url
           /\ url_given' = [url_given EXCEPT !.init_ran = TRUE]
           /\ ev' = Event("init_redis_vars", "app", <<>>, <<>>, NoEnvelope,
                          IF e.tag = "Ok" THEN "set" ELSE "panic",
                          IF e.tag = "Ok" THEN Ok(TRUE) ELSE Panicked, NoTrace)
    /\ calls' = calls + 1
    /\ UNCHANGED <<store, now, ttl_env, conn, call, last_set, derived, enabled_env, reachable,
                   connects, expiry_env, round, redis_env, pubsub>>

\* The event of a connection constructor: the URI it opened, the branch and
\* the result.
Constructed(op, c, built) ==
    Event(op, c, built.uri, <<>>, NoEnvelope,
          IF built.tag = "Ok" THEN "connected" ELSE IF built.uri = <<>> THEN "unset"
          ELSE "failed",
          [tag |-> built.tag, val |-> built.val], NoTrace)

GetRedisPool(c) ==
    /\ calls < MaxSteps
    /\ LET built == get_redis_pool(url_env, reachable)
       IN  /\ connects' = connects + built.attempts
           /\ ev' = Constructed("get_redis_pool", c, built)
    /\ calls' = calls + 1
    /\ UNCHANGED <<store, now, ttl_env, conn, call, last_set, derived, enabled_env, url_env,
                   reachable, helpers>>

GetRedisConnManager(c) ==
    /\ calls < MaxSteps
    /\ LET built == get_redis_conn_manager(url_env, reachable)
       IN  /\ connects' = connects + built.attempts
           /\ ev' = Constructed("get_redis_conn_manager", c, built)
    /\ calls' = calls + 1
    /\ UNCHANGED <<store, now, ttl_env, conn, call, last_set, derived, enabled_env, url_env,
                   reachable, helpers>>

UriInit ==
    /\ now = 0
    /\ ttl_env = EnvUnset
    /\ enabled_env = EnvUnset
    /\ url_env \in UrlEnvValues
    /\ reachable \in BOOLEAN
    /\ connects = 0
    /\ store = [k \in StoreKeys |-> Absent]
    /\ last_set = [k \in StoreKeys |-> NoSet]
    /\ conn = [m \in Managers |-> TRUE]
    /\ call = [m \in Managers |-> Idle]
    /\ ev = Event("init", "ext", <<>>, <<>>, NoEnvelope, "none", Pending, NoTrace)
    /\ calls = 0
    /\ derived = <<>>
    /\ expiry_env = EnvUnset
    /\ round = [k \in StoreKeys |-> NoRound]
    /\ redis_env \in RedisEnvValues
    /\ pubsub = [published |-> <<>>, subscribed |-> {}]
    /\ url_given = [env |-> url_env, init_ran |-> FALSE]

UriNext ==
    \/ InitRedisVars
    \/ \E c \in Tasks : GetRedisPool(c)
    \/ \E c \in Tasks : GetRedisConnManager(c)
    \/ Reach
UriSpec == UriInit /\ [][UriNext]_vars

\* ---------------------------------------- the publish/subscribe helpers alone
BroadcastingData(c, db_channel, data, ok) ==
    /\ calls < MaxSteps
    /\ LET e == broadcasting_data(url_env, reachable, pubsub, db_channel, data, ok)
       IN  /\ e.out = "panic_conn" => ok
           /\ pubsub' = e.pubsub
           /\ connects' = connects + e.attempts
           /\ ev' = Event("broadcasting_data", c, db_channel, data, NoEnvelope, e.out, e.ret,
                          NoTrace)
    /\ calls' = calls + 1
    /\ UNCHANGED <<store, now, ttl_env, conn, call, last_set, derived, enabled_env, url_env,
                   reachable, expiry_env, round, redis_env, url_given>>

SubscribeData(c, db_channel, ok) ==
    /\ calls < MaxSteps
    /\ LET e == subscribe_data(url_env, reachable, pubsub, c, db_channel, ok)
       IN  /\ e.out = "panic_conn" => ok
           /\ pubsub' = e.pubsub
           /\ connects' = connects + e.attempts
           /\ ev' = Event("subscribe_data", c, db_channel, <<>>, NoEnvelope, e.out, e.ret,
                          NoTrace)
    /\ calls' = calls + 1
    /\ UNCHANGED <<store, now, ttl_env, conn, call, last_set, derived, enabled_env, url_env,
                   reachable, expiry_env, round, redis_env, url_given>>

\* The environment has REDIS_URL or not, and the store accepts connections
\* or not.
PubSubInit ==
    /\ now = 0
    /\ ttl_env = EnvUnset
    /\ enabled_env = EnvUnset
    /\ url_env \in UrlEnvValues
    /\ reachable \in BOOLEAN
    /\ connects = 0
    /\ store = [k \in StoreKeys |-> Absent]
    /\ last_set = [k \in StoreKeys |-> NoSet]
    /\ conn = [m \in Managers |-> TRUE]
    /\ call = [m \in Managers |-> Idle]
    /\ ev = Event("init", "ext", <<>>, <<>>, NoEnvelope, "none", Pending, NoTrace)
    /\ calls = 0
    /\ derived = <<>>
    /\ HelpersInit

PubSubNext ==
    \/ \E c \in Tasks, ch \in Channels, data \in Messages, ok \in BOOLEAN :
          BroadcastingData(c, ch, data, ok)
    \/ \E c \in Tasks, ch \in Channels, ok \in BOOLEAN : SubscribeData(c, ch, ok)
    \/ Reach
PubSubSpec == PubSubInit /\ [][PubSubNext]_vars

\* ----------------------------------------------------------- properties
Returned == ev.ret.tag # "Pending"
ByManager == ev.m \in Managers
IsNone(ret) == ret.tag = "Ok" /\ ~ret.val.some
IsSome(ret, e) == ret.tag = "Ok" /\ ret.val.some /\ ret.val.v = e
Matching(pattern) == {k \in StoreKeys : GlobMatch(pattern, k)}

\* C1: a get(k) answered by the store, before the TTL of the last set(k, E)
\* that returned true has elapsed and with no delete or other write of k
\* since, returns Some(E): the data, cached_at and cache_key of E.
C1_RoundTrip ==
    (/\ ev.op = "get" /\ ev.out \notin {"no_conn", "cmd_err"}
     /\ last_set[ev.key].valid /\ ~last_set[ev.key].deleted
     /\ now < last_set[ev.key].deadline)
    => /\ IsSome(ev.ret, last_set[ev.key].env)
       /\ ev.ret.val.v.data = last_set[ev.key].env.data
       /\ ev.ret.val.v.cached_at = last_set[ev.key].env.cached_at
       /\ ev.ret.val.v.cache_key = last_set[ev.key].env.cache_key

\* A get returns the envelope a set of this behaviour stored for another key.
C1_Witness ==
    /\ ev.op = "get" /\ ev.out = "hit" /\ calls = 2
    /\ last_set[ev.key].valid /\ ev.ret.val.v = last_set[ev.key].env
    /\ ev.ret.val.v.data = "d2" /\ ev.ret.val.v.cache_key # ev.key

\* C2: once the TTL of the last set(k, E) that returned true has elapsed,
\* with no other write of k since, a get(k) returns None.
C2_Expiry ==
    (/\ ev.op = "get"
     /\ last_set[ev.key].valid
     /\ now >= last_set[ev.key].deadline)
    => IsNone(ev.ret)

\* A connected get misses an entry that was set, never deleted, and expired.
C2_Witness ==
    /\ ev.op = "get" /\ ev.out = "miss"
    /\ last_set[ev.key].valid /\ ~last_set[ev.key].deleted
    /\ now >= last_set[ev.key].deadline

C4_Step ==
    (ev'.m \in Managers /\ ~conn[ev'.m]
     /\ ev'.op \in {"set", "get", "delete", "clear_pattern"})
    => /\ store' = store
       /\ ev'.ret.tag = "Ok"
       /\ (ev'.op = "set" => ev'.ret.val = FALSE)
       /\ (ev'.op = "get" => ~ev'.ret.val.some)
       /\ (ev'.op = "delete" => ev'.ret.val = FALSE)
       /\ (ev'.op = "clear_pattern" => ev'.ret.val = 0)
C4_Disabled == [][C4_Step]_vars

\* The second call of a manager with no connection, on a store that holds
\* entries: a set of an envelope that would not even serialize.
C4_Witness ==
    /\ ByManager /\ ~conn[ev.m] /\ calls = 2
    /\ ev.op = "set" /\ ev.env.data = "unser" /\ ev.ret = Ok(FALSE)
    /\ store[KeyB0].present

\* C5: when the store command of a step fails, the handler returns Ok: get
\* None, set false, delete false, clear_pattern 0 (the listing failed, or
\* every deletion did), get_cache_info the empty mapping.
C5_NoPropagation ==
    /\ (ev.out = "cmd_err")
       => /\ ev.ret.tag # "Err"
          /\ (ev.op \in {"get", "get_cleanup"} => IsNone(ev.ret))
          /\ (ev.op \in {"set", "delete"} => ev.ret = Ok(FALSE))
          /\ (ev.op = "clear_pattern" => ev.ret = Ok(0))
          /\ (ev.op = "get_cache_info" => ev.ret = Ok({}))
    /\ (ev.op = "clear_pattern_del" /\ Returned /\ ev.trace.failed = ev.trace.listed)
       => ev.ret = Ok(0)

\* Every deletion of a clear_pattern that listed two keys has failed.
C5_Witness ==
    /\ ev.op = "clear_pattern_del" /\ ev.out = "cmd_err" /\ Returned
    /\ ev.trace.failed = ev.trace.listed /\ Cardinality(ev.trace.listed) = 2

\* C6: delete(k) returns Ok(true) exactly when the step removed k from the
\* store; it returns false when k was not there, when DEL failed and when
\* there is no connection, and then the store is as it was; no other key
\* changes.
C6_Step ==
    (ev'.op = "delete")
    => /\ ev'.ret.tag = "Ok"
       /\ ev'.ret.val = (store[ev'.key].present /\ ~store'[ev'.key].present)
       /\ ev'.ret.val = (conn[ev'.m] /\ ev'.out = "cmd_ok" /\ store[ev'.key].present)
       /\ (~ev'.ret.val => store' = store)
       /\ \A k \in StoreKeys \ {ev'.key} : store'[k] = store[k]
C6_Delete == [][C6_Step]_vars

C6_Witness ==
    /\ ev.op = "delete" /\ ev.ret = Ok(TRUE) /\ ~store[ev.key].present
    /\ last_set[ev.key].deleted

\* C7: a clear_pattern whose commands are all answered, with no change of
\* the store by anyone else meanwhile, lists the keys present that match,
\* changes no key that does not match, and returns with no matching key
\* left and with the number of keys it removed.
C7_Step ==
    (ev'.op \in {"clear_pattern", "clear_pattern_del"} /\ conn[ev'.m])
    => /\ \A k \in StoreKeys \ Matching(ev'.key) : store'[k] = store[k]
       /\ (ev'.op = "clear_pattern" /\ ev'.out = "cmd_ok")
          => ev'.trace.listed = {k \in Matching(ev'.key) : store[k].present}
       /\ (/\ ev'.ret.tag = "Ok" /\ ev'.out = "cmd_ok"
           /\ ev'.trace.failed = {} /\ ~ev'.trace.disturbed)
          => /\ \A k \in Matching(ev'.key) : ~store'[k].present
             /\ ev'.trace.removed = ev'.trace.listed
             /\ ev'.ret.val = Cardinality(ev'.trace.removed)
C7_ClearPattern == [][C7_Step]_vars

\* Two keys matched and were removed; a key that does not match is there.
C7_Witness ==
    /\ ev.op = "clear_pattern_del" /\ Returned /\ ev.ret.val = 2
    /\ ev.trace.failed = {} /\ ~ev.trace.disturbed
    /\ \E k \in StoreKeys \ Matching(ev.key) : store[k].present

\* C8: a key that matches the pattern, was not listed, and was written by
\* someone else after the listing is in the store while the clear_pattern
\* runs and when it returns (unless another client removed it or it
\* expired); the count never exceeds the number of keys listed.
C8_NotAtomic ==
    /\ \A m \in Managers :
          call[m].pc = "clear"
          => /\ \A k \in call[m].late : store[k].present
             /\ call[m].deleted_count <= Cardinality(call[m].listed)
    /\ (ev.op = "clear_pattern_del" /\ Returned)
       => /\ \A k \in ev.trace.late : store[k].present
          /\ ev.ret.val <= Cardinality(ev.trace.listed)

C8_Witness ==
    /\ ev.op = "clear_pattern_del" /\ Returned
    /\ \E k \in ev.trace.late : store[k].present /\ GlobMatch(ev.key, k)

\* C9: a clear_pattern some of whose deletions failed still returns Ok, with
\* the number of keys its answered deletions removed; with no change of the
\* store by anyone else meanwhile, the keys it removed are gone and the keys
\* whose deletion failed are there.
C9_PartialFailure ==
    (ev.op = "clear_pattern_del" /\ Returned)
    => /\ ev.ret.tag = "Ok"
       /\ ev.ret.val = Cardinality(ev.trace.removed)
       /\ ev.trace.removed \cap ev.trace.failed = {}
       /\ ~ev.trace.disturbed
          => /\ \A k \in ev.trace.removed : ~store[k].present
             /\ \A k \in ev.trace.failed : store[k].present

C9_Witness ==
    /\ ev.op = "clear_pattern_del" /\ Returned /\ ~ev.trace.disturbed
    /\ ev.trace.removed # {} /\ ev.trace.failed # {}
    /\ ev.ret = Ok(1)

\* C10 as stated: cache_response with a request that serializes returns
\* Ok(envelope of the value and the derived key), written or not.
C10_AsStated ==
    (ev.op = "cache_response" /\ ToJson(ev.arg).tag = "Ok")
    => /\ ev.ret.tag = "Ok"
       /\ ev.ret.val.data = ev.env.data
       /\ ev.ret.val.cache_key = generate_cache_key(ev.key, ev.arg).val

\* C10 amended: cache_response with a request and a value that serialize
\* returns Ok(envelope of the value, the time of the call and the derived
\* key), whether the write was done, failed or was skipped.
C10_AlwaysEnvelope ==
    (/\ ev.op = "cache_response" /\ ToJson(ev.arg).tag = "Ok"
     /\ Serialize(ev.env).tag = "Ok")
    => /\ ev.out \in {"cmd_ok", "cmd_err", "no_conn"}
       /\ ev.ret.tag = "Ok"
       /\ ev.ret.val = CachedResponse(ev.env.data, now, generate_cache_key(ev.key, ev.arg).val)

\* The write failed and the envelope came back all the same.
C10_Witness ==
    /\ ev.op = "cache_response" /\ ev.out = "cmd_err" /\ ev.ret.tag = "Ok"
    /\ ev.ret.val.data = "d1" /\ ev.ret.val.cache_key \in DerivedKeys
    /\ ~store[ev.ret.val.cache_key].present

\* C11: when a cache_response(p, R, v) whose write the store accepted has
\* returned the envelope E, a get_cached_response answered by the store at
\* the very next step returns Some(E) for the same prefix and request, and
\* does not return E for another prefix or another request.
C11_Step ==
    (/\ ev.op = "cache_response" /\ ev.out = "cmd_ok" /\ ev.ret.tag = "Ok"
     /\ ev'.op = "get_cached_response" /\ ev'.out \notin {"no_conn", "cmd_err"})
    => IF ev'.key = ev.key /\ ev'.arg = ev.arg
       THEN IsSome(ev'.ret, ev.ret.val)
       ELSE ~IsSome(ev'.ret, ev.ret.val)
C11_RequestRoundTrip == [][C11_Step]_vars

\* A lookup under the prefix "c" finds the envelope that a cache_response of
\* this behaviour stored at the current second.
C11_Witness ==
    /\ ev.op = "get_cached_response" /\ ev.out = "hit" /\ ev.key = <<"c">>
    /\ last_set[CacheKeyOf[ev.key, ev.arg].val].valid
    /\ ev.ret.val.v = last_set[CacheKeyOf[ev.key, ev.arg].val].env
    /\ ev.ret.val.v.cached_at = now /\ ev.ret.val.v.cache_key \in DerivedKeys

\* C12: every envelope in the store has a cache_key field equal to the key
\* under which it is stored.
C12_KeyFieldInvariant ==
    \A k \in StoreKeys :
        (store[k].present /\ FromRedisString(store[k]).tag = "Ok"
         /\ Deserialize(store[k].text).tag = "Ok")
        => Deserialize(store[k].text).val.cache_key = k

\* Two requests with the same fields and values, in whatever order.
SameFields(r1, r2) == Len(r1) = Len(r2) /\ Range(r1) = Range(r2)
SameRet(a, b) == a.tag = b.tag /\ a.val = b.val

\* C13: for every prefix and every two requests with the same field values,
\* in any field order, generate_cache_key returns the same key; and it
\* returns the same key each time it is called on the same request.
C13_KeyDeterminism ==
    \A i \in 1..Len(derived), j \in 1..Len(derived) :
        (derived[i].prefix = derived[j].prefix
         /\ SameFields(derived[i].request, derived[j].request))
        => SameRet(derived[i].ret, derived[j].ret)

\* The digest part of a key and the premise that the digest has no collision.
IsHex(s) == \A i \in 1..Len(s) : s[i] \in Range(HexDigits)
DigestOf(key) == SubSeq(key, Len(key) - DigestLen + 1, Len(key))
Collide(json1, json2) == json1 # json2 /\ Sha256Hex(json1) = Sha256Hex(json2)

\* C14: a key is the prefix, a colon and a hex digest of fixed length that
\* depends on the JSON text of the request alone; two keys are equal only
\* when the prefixes are equal and the requests have the same JSON text (or
\* their digests collide).
C14_KeyForm ==
    /\ \A i \in 1..Len(derived) :
          derived[i].ret.tag = "Ok"
          => LET key == derived[i].ret.val
                 n == Len(derived[i].prefix)
             IN  /\ Len(key) = n + 1 + DigestLen
                 /\ SubSeq(key, 1, n) = derived[i].prefix
                 /\ key[n + 1] = ":"
                 /\ IsHex(DigestOf(key))
    /\ \A i \in 1..Len(derived), j \in 1..Len(derived) :
          (derived[i].ret.tag = "Ok" /\ derived[j].ret.tag = "Ok")
          => LET json1 == ToJson(derived[i].request).val
                 json2 == ToJson(derived[j].request).val
             IN  /\ json1 = json2
                    => DigestOf(derived[i].ret.val) = DigestOf(derived[j].ret.val)
                 /\ derived[i].ret.val = derived[j].ret.val
                    => /\ derived[i].prefix = derived[j].prefix
                       /\ (json1 = json2 \/ Collide(json1, json2))

\* Two keys were derived under the prefixes "b" and "b:4" from two requests
\* of different JSON text, and they differ.
C14_Witness ==
    /\ Len(derived) = 2
    /\ derived[1].prefix = <<"b">> /\ derived[2].prefix = <<"b", ":", "4">>
    /\ derived[1].ret.tag = "Ok" /\ derived[2].ret.tag = "Ok"
    /\ ToJson(derived[1].request).val # ToJson(derived[2].request).val
    /\ ~Collide(ToJson(derived[1].request).val, ToJson(derived[2].request).val)
    /\ derived[1].ret.val # derived[2].ret.val

\* C15: a request that does not serialize makes generate_cache_key,
\* cache_response and get_cached_response return an error, connected or
\* not, with no store command issued; an envelope that does not serialize
\* makes a connected set return an error with nothing written.
C15_Step ==
    /\ (/\ ev'.op \in {"generate_cache_key", "cache_response", "get_cached_response"}
        /\ ToJson(ev'.arg).tag = "Err")
       => /\ ev'.ret.tag = "Err" /\ ~Issues(ev'.out)
          /\ store' = store /\ call' = call /\ last_set' = last_set
    /\ (ev'.op = "set" /\ conn[ev'.m] /\ Serialize(ev'.env).tag = "Err")
       => /\ ev'.ret.tag = "Err" /\ ~Issues(ev'.out)
          /\ store' = store /\ call' = call /\ last_set' = last_set
C15_SerializationFailure == [][C15_Step]_vars

\* The second call, on a store that holds entries: a connected manager's
\* cache_response of a request that does not serialize has returned an error.
C15_Witness ==
    /\ ev.op = "cache_response" /\ ev.out = "key_err" /\ ev.ret.tag = "Err"
    /\ conn[ev.m] /\ calls = 2 /\ store[KeyB0].present

\* A line of the form key:value with this key (the text before its first
\* colon), and the lines of a reply that have a colon.
HasKey(line, k) ==
    /\ Len(line) > Len(k) /\ SubSeq(line, 1, Len(k)) = k /\ line[Len(k) + 1] = ":"
    /\ ":" \notin Range(k)
KeyValueLines(lines) == {i \in 1..Len(lines) : ":" \in Range(lines[i])}
Unavailable == <<"u", "n", "a", "v", "a", "i", "l", "a", "b", "l", "e">>

\* C16 as stated: get_cache_info of a manager with no connection returns
\* the single entry status -> "unavailable"; with a connection, one entry
\* per key:value line of the reply.
C16_AsStated ==
    (ev.op = "get_cache_info")
    => /\ ev.ret.tag = "Ok"
       /\ ev.out = "no_conn" => ev.ret.val = {<<StatusKey, Unavailable>>}
       /\ ev.out = "cmd_ok" => Cardinality(ev.ret.val) = Cardinality(KeyValueLines(ev.arg))

\* C16 amended: with no connection the single entry is status -> "Redis not
\* available"; with a connection and INFO answered there is one entry per
\* distinct key of the key:value lines, split at the first colon, with the
\* value of the last line of that key; when INFO fails there is no entry.
C16_Stats ==
    (ev.op = "get_cache_info")
    => /\ ev.ret.tag = "Ok"
       /\ ev.out = "no_conn"
          => /\ Cardinality(ev.ret.val) = 1
             /\ \A e \in ev.ret.val : e[1] = StatusKey /\ e[2] = RedisNotAvailable
       /\ ev.out = "cmd_err" => ev.ret.val = {}
       /\ ev.out = "cmd_ok"
          => /\ \A i \in KeyValueLines(ev.arg) : \E e \in ev.ret.val : HasKey(ev.arg[i], e[1])
             /\ \A e \in ev.ret.val :
                   \E i \in KeyValueLines(ev.arg) :
                      /\ ev.arg[i] = e[1] \o <<":">> \o e[2] /\ ":" \notin Range(e[1])
                      /\ \A j \in KeyValueLines(ev.arg) : j > i => ~HasKey(ev.arg[j], e[1])
             /\ \A e1 \in ev.ret.val, e2 \in ev.ret.val : e1[1] = e2[1] => e1 = e2

\* A manager with no connection has returned its one entry.
C16_Witness ==
    /\ ev.op = "get_cache_info" /\ ev.m \in Managers /\ ~conn[ev.m]
    /\ ev.ret.tag = "Ok" /\ ev.ret.val = {<<StatusKey, RedisNotAvailable>>}

\* The text "true" in whatever case, and the decimal texts of the integers
\* from 0 to 2^64 - 1 (with an optional "+").
EqualsTrueIgnoringCase(s) ==
    /\ Len(s) = 4
    /\ s[1] \in {"t", "T"} /\ s[2] \in {"r", "R"} /\ s[3] \in {"u", "U"} /\ s[4] \in {"e", "E"}
UnsignedBody(s) == IF s # <<>> /\ s[1] = "+" THEN SubSeq(s, 2, Len(s)) ELSE s
IsDecimal(s) == UnsignedBody(s) # <<>> /\ \A i \in 1..Len(UnsignedBody(s)) : UnsignedBody(s)[i] \in Range(Digits)
FitsU64(s) == Len(Significant(UnsignedBody(s))) <= U64Digits

\* C17 as stated: the flag is true when CACHE_ENABLED is unset and otherwise
\* exactly when its value is "true" ignoring case; the TTL is 3600 when
\* CACHE_TTL_SECONDS is unset or is not a non-negative integer, and otherwise
\* the integer.
C17_AsStated ==
    /\ (ev.op = "is_cache_enabled")
       => ev.ret.val = (~enabled_env.set \/ EqualsTrueIgnoringCase(enabled_env.val))
    /\ (ev.op = "get_cache_ttl")
       => IF ttl_env.set /\ IsDecimal(ttl_env.val)
          THEN IF FitsU64(ttl_env.val)
               THEN ev.ret.val = DecVal(UnsignedBody(ttl_env.val))
               ELSE ev.ret.val > 3600   \* the integer, which is above 2^64
          ELSE ev.ret.val = 3600

\* C17 amended: the flag is true when CACHE_ENABLED is unset or is not
\* Unicode, and otherwise exactly when its value is "true" ignoring case; the
\* TTL is 3600 when CACHE_TTL_SECONDS is unset or is not the decimal text of
\* an integer from 0 to 2^64 - 1, and otherwise that integer.
C17_Config ==
    /\ (ev.op = "is_cache_enabled")
       => ev.ret.val = (\/ ~enabled_env.set
                        \/ "xFF" \in Range(enabled_env.val)
                        \/ EqualsTrueIgnoringCase(enabled_env.val))
    /\ (ev.op = "get_cache_ttl")
       => ev.ret.val = IF ttl_env.set /\ IsDecimal(ttl_env.val) /\ FitsU64(ttl_env.val)
                       THEN DecVal(UnsignedBody(ttl_env.val))
                       ELSE 3600

\* The flag has been read as true from a value in mixed case.
C17_Witness ==
    /\ ev.op = "is_cache_enabled" /\ ev.ret.val = TRUE
    /\ enabled_env = EnvSet(<<"t", "R", "u", "E">>)

\* C18: every set that returns true, and every cache_response that writes,
\* leaves its key with the expiry now + TTL, for the TTL that
\* CACHE_TTL_SECONDS gives at that call, whether the key was there or not;
\* no step of a manager gives a key any other expiry.
C18_Step ==
    /\ (ev'.op = "set" /\ ev'.ret.tag = "Ok" /\ ev'.ret.val)
       => /\ store'[ev'.key].present /\ store'[ev'.key].volatile
          /\ store'[ev'.key].exp = now + get_cache_ttl(ttl_env)
    /\ (ev'.op = "cache_response" /\ ev'.out = "cmd_ok")
       => /\ store'[ev'.ret.val.cache_key].present /\ store'[ev'.ret.val.cache_key].volatile
          /\ store'[ev'.ret.val.cache_key].exp = now + get_cache_ttl(ttl_env)
    /\ \A k \in StoreKeys :
          (ev'.m \in Managers /\ store'[k].present /\ store'[k] # store[k])
          => /\ ev'.op \in {"set", "cache_response"}
             /\ store'[k].volatile /\ store'[k].exp = now + get_cache_ttl(ttl_env)
C18_SingleTtl == [][C18_Step]_vars

\* After CACHE_TTL_SECONDS was changed to 2, a set has overwritten the entry
\* of "b0", which now expires two seconds from now.
C18_Witness ==
    /\ ev.op = "set" /\ ev.ret.tag = "Ok" /\ ev.ret.val /\ ev.key = KeyB0 /\ calls = 2
    /\ ttl_env = EnvSet(<<"2">>) /\ store[KeyB0].exp = now + 2
    /\ store[KeyC0].present

\* C19: with the managers running set, get and delete on a key in any
\* interleaving, a get returns None or the envelope an earlier set of the
\* key was given; once every call has returned (and before the TTL ends),
\* the key holds the envelope of the last set the store applied, or nothing
\* when a delete was applied after it.
C19_Uncoordinated ==
    /\ (ev.op = "get" /\ ev.ret.tag = "Ok" /\ ev.ret.val.some)
       => /\ last_set[ev.key].valid
          /\ ev.ret.val.v = last_set[ev.key].env
    /\ (\A m \in Managers : call[m].pc = "idle")
       => \A k \in DirectKeys :
             (last_set[k].valid /\ now < last_set[k].deadline)
             => IF last_set[k].deleted /\ ~last_set[k].cleaned
                THEN ~store[k].present
                ELSE /\ store[k].present
                     /\ store[k].text = Serialize(last_set[k].env).val

\* C20: CacheManager::new always returns a manager; the manager has no
\* connection when the cache-enabled flag is false (and then no connection
\* was tried), when REDIS_URL is unset and when connecting fails, and has
\* one otherwise; no later step changes whether a manager has a connection,
\* which is what is_available returns.
C20_Step ==
    /\ (ev'.op = "new")
       => /\ ev'.ret.tag = "Ok" /\ ev'.ret.val = conn'[ev'.m]
          /\ ~is_cache_enabled(enabled_env) => (~conn'[ev'.m] /\ connects' = connects)
          /\ ~url_env.set => ~conn'[ev'.m]
          /\ (url_env.set /\ (url_env.val # RedisUrl \/ ~reachable)) => ~conn'[ev'.m]
          /\ (is_cache_enabled(enabled_env) /\ url_env = EnvSet(RedisUrl) /\ reachable)
             => (conn'[ev'.m] /\ connects' = connects + 1)
    /\ \A m \in Managers :
          (conn'[m] # conn[m]) => (ev'.op = "new" /\ ev'.m = m /\ call[m].pc = "new")
    /\ (ev'.op = "is_available") => ev'.ret.val = conn[ev'.m]
C20_FixedAtConstruction == [][C20_Step]_vars

\* A manager constructed while the store refused connections answers with
\* no connection after the store has become reachable, and a manager
\* constructed since then is connected.
C20_Witness ==
    /\ ev.op = "get" /\ ev.m = "m1" /\ ev.out = "no_conn"
    /\ ~conn["m1"] /\ conn["m2"] /\ reachable /\ connects = 2
    /\ is_cache_enabled(enabled_env) /\ url_env = EnvSet(RedisUrl)

\* What GET answers at key k of store s that get cannot read as an envelope:
\* text that serde_json::from_str rejects.
FailsToDeserialize(s, k) ==
    FromRedisString(s[k]).tag = "Ok" /\ Deserialize(s[k].text).tag = "Err"
\* A step of get on its key: the fetch, then the clean-up when there is one.
GetFetch(op) == op = "get"
GetDelete(op) == op = "get_cleanup"

\* C21 as stated: get deletes its key exactly when the value it fetched does
\* not deserialize, and changes nothing else: the fetch leaves the store as
\* it was, the delete comes after such a fetch only, removes the key and
\* leaves every other key as it was.
C21_StatedStep ==
    /\ GetFetch(ev'.op)
       => /\ store' = store
          /\ (call'[ev'.m].pc = "get")
             = (conn[ev'.m] /\ ev'.out # "cmd_err" /\ FailsToDeserialize(store, ev'.key))
          /\ call'[ev'.m].pc = "get" => call'[ev'.m].key = ev'.key
    /\ GetDelete(ev'.op)
       => /\ call[ev'.m].pc = "get" /\ call[ev'.m].key = ev'.key
          /\ ~store'[ev'.key].present
          /\ \A k \in StoreKeys \ {ev'.key} : store'[k] = store[k]
C21_AsStated == [][C21_StatedStep]_vars

\* C21 amended: the fetch of a get leaves every key, value and expiry as it
\* was, on a hit, on a miss and when GET fails; get issues its DEL exactly
\* when the value fetched does not deserialize; that DEL, when the store
\* answers it, removes the key, and when it fails changes nothing; no step
\* of get changes another key.
C21_Step ==
    /\ GetFetch(ev'.op)
       => /\ store' = store
          /\ (call'[ev'.m].pc = "get")
             = (conn[ev'.m] /\ ev'.out # "cmd_err" /\ FailsToDeserialize(store, ev'.key))
          /\ call'[ev'.m].pc = "get" => call'[ev'.m].key = ev'.key
          /\ call'[ev'.m].pc # "get" => ev'.ret.tag = "Ok"
    /\ GetDelete(ev'.op)
       => /\ call[ev'.m].pc = "get" /\ call[ev'.m].key = ev'.key
          /\ IF ev'.out = "cleaned" THEN ~store'[ev'.key].present ELSE store' = store
          /\ \A k \in StoreKeys \ {ev'.key} : store'[k] = store[k]
    /\ \A m \in Managers :
          (call[m].pc = "get" /\ call'[m].pc # "get") => (GetDelete(ev'.op) /\ ev'.m = m)
C21_GetFrame == [][C21_Step]_vars

\* The clean-up of a get has removed "c0", whose value was no envelope, and
\* the entry of "b0" is there with the expiry its set gave it.
C21_Witness ==
    /\ ev.op = "get_cleanup" /\ ev.out = "cleaned" /\ ev.key = KeyC0
    /\ ~store[KeyC0].present
    /\ store[KeyB0].present /\ last_set[KeyB0].valid
    /\ store[KeyB0].exp = last_set[KeyB0].deadline

\* C22: when a set(k, E) of a valid envelope was applied by the store after
\* a get(k) fetched a value that does not deserialize and before that get's
\* DEL, with no delete of k called and the TTL of E not over, E is stored at
\* k when the get has returned.
C22_SelfHealKeepsSet ==
    (/\ ev.op = "get_cleanup"
     /\ last_set[ev.key].valid /\ now < last_set[ev.key].deadline
     /\ (last_set[ev.key].deleted => last_set[ev.key].cleaned))
    => /\ store[ev.key].present
       /\ store[ev.key].text = Serialize(last_set[ev.key].env).val

\* The set-if-absent helpers.
SetIfAbsentOps == {"set_if_not_exist", "set_with_options"}

\* C23: set_if_not_exist and set_with_options return true only when the key
\* was absent and the value was written, and return false, the value left as
\* it was, when the key is present; of the calls made on a key that was
\* absent exactly one has returned true, and no other returns true before
\* the entry has expired, IDEMPOTENT_EXPIRY_IN_SEC seconds (120 by default)
\* after set_with_options wrote it.
C23_Step ==
    /\ (ev'.op \in SetIfAbsentOps)
       => /\ (ev'.ret.tag = "Ok" /\ ev'.ret.val)
             => /\ ~store[ev'.key].present
                /\ store'[ev'.key].present /\ store'[ev'.key].text = ev'.arg
                /\ ev'.op = "set_with_options"
                   => /\ store'[ev'.key].volatile
                      /\ store'[ev'.key].exp = now + expiry_in_sec(expiry_env)
          /\ store[ev'.key].present
             => (ev'.ret.tag = "Ok" /\ ev'.ret.val = FALSE /\ store' = store)
          /\ \A k \in StoreKeys \ {ev'.key} : store'[k] = store[k]
    /\ \A k \in StoreKeys :
          /\ (round'[k].absent /\ round'[k].calls > 0) => round'[k].trues = 1
          /\ round'[k].trues <= 1
C23_SetIfAbsent == [][C23_Step]_vars

\* The connection constructors.
Constructors == {"get_redis_pool", "get_redis_conn_manager"}

\* C24: when the environment has REDIS_URL, a connection constructor passes
\* that URI to Client::open, whatever REDIS_HOST, REDIS_PORT, REDIS_USERNAME
\* and REDIS_PASSWORD are and whether it is called before or after
\* init_redis_vars; when the environment has no REDIS_URL and init_redis_vars
\* has not run, get_redis_pool and get_redis_conn_manager return an error.
C24_UriOverride ==
    (ev.op \in Constructors)
    => /\ url_given.env.set => ev.key = url_given.env.val
       /\ (~url_given.env.set /\ ~url_given.init_ran) => ev.ret.tag = "Err"

\* C25: broadcasting_data returns Ok only when the step has published its
\* message to its channel, subscribe_data returns Ok only when the step has
\* subscribed its task to its channel, and each returns an error, and does
\* not abort its task, when REDIS_URL is unset, when the connection cannot
\* be opened and when the store command fails.
C25_Step ==
    /\ (ev'.op = "broadcasting_data")
       => /\ ev'.ret.tag = "Ok" => pubsub'.published = Append(pubsub.published, <<ev'.key, ev'.arg>>)
          /\ ev'.ret.tag # "Ok" => pubsub' = pubsub
    /\ (ev'.op = "subscribe_data")
       => /\ ev'.ret.tag = "Ok" => <<ev'.m, ev'.key>> \in pubsub'.subscribed
          /\ ev'.ret.tag # "Ok" => pubsub' = pubsub
    /\ (ev'.op \in {"broadcasting_data", "subscribe_data"})
       => /\ ev'.ret.tag \in {"Ok", "Err"}
          /\ (\/ ~url_env.set
              \/ get_redis_pool(url_env, reachable).tag = "Err"
              \/ ev'.out # "cmd_ok")
             => ev'.ret.tag = "Err"
C25_PubSubResult == [][C25_Step]_vars

====
